---- MODULE Spec2Model ----
(***************************************************************************)
(* A model of the ingestion, deduplication and scoring pipeline of         *)
(* news-analyser.                                                          *)
(*                                                                         *)
(*   SpecIngest   two scrape_rss_source tasks against the News table (link *)
(*                UNIQUE) and the fingerprint cache, with celery retries.  *)
(*   SpecStore    the three ingestion paths scrape_rss_source,             *)
(*                save_articles_to_db and News.parse_news interleaved.     *)
(*   SpecDedup    ContentDeduplicator.deduplicate_articles as a function   *)
(*                of a batch, the store and the cache.                     *)
(*   SpecAnalyze  AdvancedSentimentAnalyzer.analyze_sentiment: the Gemini  *)
(*                retry loop, the three local adapters, the composite.     *)
(*   SpecScore    two analyze_article_sentiment tasks for one article      *)
(*                against the SentimentScore table.                        *)
(*   SpecConfidence  calculate_confidence on drawn model scores.           *)
(*   SpecLabel    get_sentiment_label on drawn composite scores.           *)
(*   SpecRate     the Gemini rate limiter of analyzer instances on a clock.*)
(*   SpecFeeds    scrape_all_feeds over the configured feeds.              *)
(*   SpecRetain   ingestion, analysis and the two retention cleanups.      *)
(*   SpecLifecycle  ingestion, analysis and the content views.             *)
(*   SpecCache    ingestion with cleanup_cache and key expiry.             *)
(*   SpecNormalize  the two RSS paths normalizing the entries of a feed.   *)
(*   SpecFingerprint  the three content-hash functions on two pairs.       *)
(*   SpecTickers  find_tickers_in_text on a text of a few words.           *)
(*   SpecRecognize  TickerRecognizer on the characters of a title and a    *)
(*                  summary: the variations of a name, the three tiers.    *)
(*   SpecAggregate  aggregate_ticker_sentiment and the view calling it.    *)
(*   SpecRotation   get_sector_rotation_signals on drawn sector scores.    *)
(*   SpecScrape   two scrape_rss_source tasks, no cache key expiring.      *)
(*   SpecSubmit, FairSubmit  the scheduled scrapes, analyze_recent_articles *)
(*                  and the worker executing every queued task.            *)
(*   SpecRetry, FairRetry  BaseScraper.scrape_with_retry run to its end.   *)
(***************************************************************************)
EXTENDS Integers, Sequences, FiniteSets, TLC

VARIABLES
    news,      \* rows of the News table
    nextId,    \* next primary key of the News table
    cache,     \* live keys content_hash_<h> of the django cache
    rss,       \* scrape_rss_source task instances: position and locals
    cmd,       \* one caller of NewsScraperRefactored.save_articles_to_db
    view,      \* one caller of News.parse_news (the search view)
    dd,        \* one call of deduplicate_articles on drawn inputs (SpecDedup)
    an,        \* one call of AdvancedSentimentAnalyzer.analyze_sentiment
    az,        \* analyze_article_sentiment task instances: position and locals
    sentiment_scores,  \* rows of the SentimentScore table
    nextScoreId,       \* next primary key of the SentimentScore table
    mentions,  \* rows of the news.tickers / news.sectors relations
    call,      \* one call of a function on drawn arguments
    rate,      \* the clock and the Gemini calls of the analyzer instances
    clean      \* the retention and cache cleanup tasks: position and locals

aux_vars == <<call, rate, clean>>

analysis_vars == <<an, az, sentiment_scores, nextScoreId, mentions, aux_vars>>

vars == <<news, nextId, cache, rss, cmd, view, dd, an, az, sentiment_scores,
          nextScoreId, mentions, call, rate, clean>>

---------------------------------------------------------------------------
(* Bounds of the model *)

MaxFeed == 2      \* longest feed or batch handed to one ingestion call
MaxBatch == 3     \* longest batch drawn for deduplicate_articles alone
MaxClock == 4     \* last second the clock of the rate limiter reaches
MaxCalls == 3     \* most Gemini calls kept in the log of the rate limiter
NumFeeds == 3     \* number of feeds configured in RSS_FEEDS

---------------------------------------------------------------------------
(* Text and fingerprints *)

None == "None"

\* an article or row that carries no content_hash
NoHash == <<"None">>

\* str.lower() on the model's alphabet
Lower(c) == IF c = "A" THEN "a" ELSE IF c = "B" THEN "b" ELSE c

LowerStr(s) == [k \in 1..Len(s) |-> Lower(s[k])]

RECURSIVE LStrip(_)
LStrip(s) == IF s # <<>> /\ Head(s) = " " THEN LStrip(Tail(s)) ELSE s

RECURSIVE RStrip(_)
RStrip(s) ==
    IF s # <<>> /\ s[Len(s)] = " " THEN RStrip(SubSeq(s, 1, Len(s) - 1)) ELSE s

\* str.strip()
Strip(s) == RStrip(LStrip(s))

\* hashlib.sha256(...).hexdigest(), taken as collision free: the digest is
\* identified with the byte string it was computed from
Sha256(s) == <<"sha256", s>>

\* ContentDeduplicator.generate_hash
generate_hash(text) == Sha256(Strip(LowerStr(text)))

\* ContentDeduplicator.generate_content_hash
generate_content_hash(title, content) ==
    generate_hash(LowerStr(title) \o LowerStr(content))

\* BaseScraper._generate_content_hash, which fills article['content_hash']
BaseGenerateContentHash(title, content) ==
    Sha256(LowerStr(title) \o LowerStr(content))

---------------------------------------------------------------------------
(* Inputs *)

\* no function call, no Gemini call and no cleanup under way
AuxIdle ==
    /\ call = [pc |-> "idle"]
    /\ rate = [pc |-> "idle"]
    /\ clean = [pc |-> "idle"]

\* the analysis side at rest: nothing analysed, nothing queued
AnalysisIdle ==
    /\ AuxIdle
    /\ an = [pc |-> "idle"]
    /\ az = <<>>
    /\ sentiment_scores = {}
    /\ nextScoreId = 1
    /\ mentions = {}

Links == {"u1", "u2"}
Titles == {<<"A">>, <<"b">>}
Summaries == {<<"s">>}
Keywords == {"general", "RELIANCE"}

\* a normalized article as BaseScraper.normalize_article emits it
NormalizedArticle(l, t, s) ==
    [link |-> l, title |-> t, content_summary |-> s,
     content_hash |-> BaseGenerateContentHash(t, s)]

Articles == {NormalizedArticle(l, t, s) : l \in Links, t \in Titles, s \in Summaries}

Range(s) == {s[k] : k \in 1..Len(s)}

SeqsUpTo(S, n) == UNION {[1..k -> S] : k \in 0..n}

Feeds == SeqsUpTo(Articles, MaxFeed) \ {<<>>}

\* what the feed of each source key holds: the first source any feed, the
\* second a single article
FeedsOf(w) == IF w = "rss1" THEN Feeds ELSE {<<a>> : a \in Articles}

StoredLinks(rows) == {r.link : r \in rows}

---------------------------------------------------------------------------
(* The News table *)

\* a link column without the UNIQUE constraint, for comparison
NoUniqueConstraint(rows, link) == FALSE

\* News.link = CharField(unique=True): an INSERT of a row whose link is
\* already stored fails with IntegrityError
UniqueLinkViolated(rows, link) == \E r \in rows : r.link = link

\* News.objects.filter(link=url) / get(link=url)
RowsByLink(rows, link) == {r \in rows : r.link = link}

\* News.objects.get(title=, content_summary=, link=, keyword=) of parse_news
RowsByParseKey(rows, item, kwd) ==
    {r \in rows : /\ r.title = item.title
                  /\ r.content_summary = item.content_summary
                  /\ r.link = item.link
                  /\ r.keyword = kwd}

NewsRow(id, article, hash, kwd, src) ==
    [id |-> id, link |-> article.link, title |-> article.title,
     content_summary |-> article.content_summary, content_hash |-> hash,
     keyword |-> kwd, source |-> src, content |-> None,
     is_analyzed |-> FALSE, impact_rating |-> 0]

\* a row with this primary key is in the table
NewsExists(rows, id) == \E r \in rows : r.id = id

\* the source chosen by parse_news from substrings of the link
LinkSource(link) == IF link = "u1" THEN "TH" ELSE "OTHER"

---------------------------------------------------------------------------
(* ContentDeduplicator *)

is_duplicate_by_hash(content_hash, c) == content_hash \in c

mark_as_seen(content_hash, c) == c \cup {content_hash}

\* a deduplicator that never consults the store, for comparison
NeverDuplicateByUrl(url, rows) == FALSE

is_duplicate_by_url(url, rows) == RowsByLink(rows, url) # {}

\* article.get('content_hash'), computed when the article carries none
ArticleHash(a) ==
    IF a.content_hash = NoHash
    THEN generate_content_hash(a.title, a.content_summary)
    ELSE a.content_hash

\* the article as the loop leaves it: article['content_hash'] filled in
WithHash(a) == [a EXCEPT !.content_hash = ArticleHash(a)]

\* a URL test that forgets the links kept earlier in the batch, for comparison
DupUrlStoredOnly(url, seen_urls, rows) == is_duplicate_by_url(url, rows)

\* a URL test that looks at the batch only, for comparison
DupUrlSeenOnly(url, seen_urls, rows) == url \in seen_urls

\* the URL test of the loop
DupUrl(url, seen_urls, rows) == url \in seen_urls \/ is_duplicate_by_url(url, rows)

\* the content-hash test of the loop
DupHash(h, seen_hashes, c) == h \in seen_hashes \/ is_duplicate_by_hash(h, c)

RECURSIVE DedupLoop(_, _, _, _, _, _)
DedupLoop(articles, rows, c, unique_articles, seen_hashes, seen_urls) ==
    IF articles = <<>>
    THEN [unique |-> unique_articles, cache |-> c]
    ELSE LET a == Head(articles)
             h == ArticleHash(a)
         IN  IF DupUrl(a.link, seen_urls, rows)
             THEN DedupLoop(Tail(articles), rows, c, unique_articles,
                            seen_hashes, seen_urls)
             ELSE IF DupHash(h, seen_hashes, c)
             THEN DedupLoop(Tail(articles), rows, c, unique_articles,
                            seen_hashes, seen_urls)
             ELSE DedupLoop(Tail(articles), rows, mark_as_seen(h, c),
                            Append(unique_articles, WithHash(a)),
                            seen_hashes \cup {h}, seen_urls \cup {a.link})

\* deduplicate_articles run to completion against a store and a cache that
\* nobody else touches meanwhile: the returned list and the cache afterwards
deduplicate_articles(articles, rows, c) ==
    DedupLoop(articles, rows, c, <<>>, {}, {})

---------------------------------------------------------------------------
(* scrape_rss_source: one celery task per source key *)

RssTasks == {"rss1", "rss2"}

RssQueued(f) ==
    [pc |-> "queued", feed |-> f, i |-> 1, unique_articles |-> <<>>,
     seen_hashes |-> {}, seen_urls |-> {}, saved_count |-> 0, retries |-> 0]

\* @shared_task(bind=True, max_retries=3, default_retry_delay=30)
max_retries == 3

\* the for loop of deduplicate_articles moving to its next article, or, past
\* the last one, the task going on to Source.objects.get_or_create
NextDedup(t) ==
    IF t.i + 1 > Len(t.feed)
    THEN [t EXCEPT !.pc = "source", !.i = 1]
    ELSE [t EXCEPT !.pc = "dedup_url", !.i = @ + 1]

\* the for loop over unique_articles moving on, or the task returning
NextSave(t) ==
    IF t.i + 1 > Len(t.unique_articles)
    THEN [t EXCEPT !.pc = "done", !.i = 1]
    ELSE [t EXCEPT !.pc = "save_get", !.i = @ + 1]

\* a worker takes the task: scraper.scrape() returns the feed's articles and
\* a new ContentDeduplicator starts with empty seen sets
RssStart(w) ==
    /\ rss[w].pc = "queued"
    /\ rss' = [rss EXCEPT ![w] =
                 [@ EXCEPT !.pc = "dedup_url", !.i = 1, !.unique_articles = <<>>,
                           !.seen_hashes = {}, !.seen_urls = {},
                           !.saved_count = 0]]
    /\ UNCHANGED <<news, nextId, cache, cmd, view, dd>>
    /\ UNCHANGED analysis_vars

\* `if url in seen_urls or self.is_duplicate_by_url(url): continue`
RssDedupUrl(w) ==
    /\ rss[w].pc = "dedup_url"
    /\ LET t == rss[w]
           a == t.feed[t.i]
       IN  rss' = [rss EXCEPT ![w] =
                     IF DupUrl(a.link, t.seen_urls, news)
                     THEN NextDedup(t)
                     ELSE [t EXCEPT !.pc = "dedup_hash"]]
    /\ UNCHANGED <<news, nextId, cache, cmd, view, dd>>
    /\ UNCHANGED analysis_vars

\* `if content_hash in seen_hashes or self.is_duplicate_by_hash(...): continue`
RssDedupHash(w) ==
    /\ rss[w].pc = "dedup_hash"
    /\ LET t == rss[w]
           a == t.feed[t.i]
       IN  rss' = [rss EXCEPT ![w] =
                     IF DupHash(ArticleHash(a), t.seen_hashes, cache)
                     THEN NextDedup(t)
                     ELSE [t EXCEPT !.pc = "dedup_mark"]]
    /\ UNCHANGED <<news, nextId, cache, cmd, view, dd>>
    /\ UNCHANGED analysis_vars

\* seen_hashes.add, seen_urls.add, mark_as_seen (cache.set), append
RssDedupMark(w) ==
    /\ rss[w].pc = "dedup_mark"
    /\ LET t == rss[w]
           a == t.feed[t.i]
           h == ArticleHash(a)
       IN  /\ cache' = mark_as_seen(h, cache)
           /\ rss' = [rss EXCEPT ![w] =
                        NextDedup([t EXCEPT
                            !.seen_hashes = @ \cup {h},
                            !.seen_urls = @ \cup {a.link},
                            !.unique_articles = Append(@, WithHash(a))])]
    /\ UNCHANGED <<news, nextId, cmd, view, dd>>
    /\ UNCHANGED analysis_vars

\* Source.objects.get_or_create(...), source.save(); then the save loop
RssSource(w) ==
    /\ rss[w].pc = "source"
    /\ rss' = [rss EXCEPT ![w] =
                 IF @.unique_articles = <<>>
                 THEN [@ EXCEPT !.pc = "done"]
                 ELSE [@ EXCEPT !.pc = "save_get", !.i = 1]]
    /\ UNCHANGED <<news, nextId, cache, cmd, view, dd>>
    /\ UNCHANGED analysis_vars

\* News.objects.get_or_create(link=...): the SELECT by link
RssSaveGet(w) ==
    /\ rss[w].pc = "save_get"
    /\ LET t == rss[w]
           a == t.unique_articles[t.i]
       IN  rss' = [rss EXCEPT ![w] =
                     IF RowsByLink(news, a.link) # {}
                     THEN NextSave(t)
                     ELSE [t EXCEPT !.pc = "save_create"]]
    /\ UNCHANGED <<news, nextId, cache, cmd, view, dd>>
    /\ UNCHANGED analysis_vars

\* News.objects.get_or_create(link=...): the INSERT with the defaults; on
\* IntegrityError get_or_create selects the row again and returns
\* created=False
RssSaveCreate(w) ==
    /\ rss[w].pc = "save_create"
    /\ LET t == rss[w]
           a == t.unique_articles[t.i]
       IN  IF UniqueLinkViolated(news, a.link)
           THEN /\ rss' = [rss EXCEPT ![w] = NextSave(t)]
                /\ UNCHANGED <<news, nextId>>
           ELSE /\ news' = news \cup
                      {NewsRow(nextId, a, a.content_hash, "general", w)}
                /\ nextId' = nextId + 1
                /\ rss' = [rss EXCEPT ![w] =
                             NextSave([t EXCEPT !.saved_count = @ + 1])]
    /\ UNCHANGED <<cache, cmd, view, dd>>
    /\ UNCHANGED analysis_vars

\* `except Exception as e: logger.error(...); continue` inside the save loop:
\* the statement for the current article failed (database error)
RssSaveError(w) ==
    /\ rss[w].pc \in {"save_get", "save_create"}
    /\ rss' = [rss EXCEPT ![w] = NextSave(@)]
    /\ UNCHANGED <<news, nextId, cache, cmd, view, dd>>
    /\ UNCHANGED analysis_vars

\* an exception outside the save loop (cache or database error while
\* deduplicating, Source.objects.get_or_create, source.save()) reaches
\* `except Exception as e: raise self.retry(exc=e)`: the task is queued again
\* with the same source key until max_retries is used up
RssFail(w) ==
    /\ rss[w].pc \in {"dedup_url", "dedup_hash", "dedup_mark", "source"}
    /\ rss' = [rss EXCEPT ![w] =
                 IF @.retries < max_retries
                 THEN [@ EXCEPT !.pc = "queued", !.retries = @ + 1]
                 ELSE [@ EXCEPT !.pc = "failed"]]
    /\ UNCHANGED <<news, nextId, cache, cmd, view, dd>>
    /\ UNCHANGED analysis_vars

---------------------------------------------------------------------------
(* NewsScraperRefactored.save_articles_to_db *)

CmdIdle ==
    [pc |-> "idle", article |-> None, left |-> 0,
     saved |-> 0, duplicates |-> 0, errors |-> 0]

\* the for loop moving on: the next article of the batch, or the return
NextCmd(c) ==
    IF c.left = 0
    THEN [c EXCEPT !.pc = "done", !.article = None]
    ELSE [c EXCEPT !.pc = "next", !.article = None]

\* save_articles_to_db(articles, source_name) is called with a batch of
\* 1..MaxFeed articles; the articles are drawn as the loop reaches them
CmdStart ==
    /\ cmd.pc \in {"idle", "done"}
    /\ \E n \in 1..MaxFeed : cmd' = [CmdIdle EXCEPT !.pc = "next", !.left = n]
    /\ UNCHANGED <<news, nextId, cache, rss, view, dd>>
    /\ UNCHANGED analysis_vars

\* `for article in articles:`
CmdNext ==
    /\ cmd.pc = "next"
    /\ \E a \in Articles :
          cmd' = [cmd EXCEPT !.pc = "exists", !.article = a, !.left = @ - 1]
    /\ UNCHANGED <<news, nextId, cache, rss, view, dd>>
    /\ UNCHANGED analysis_vars

\* `exists = News.objects.filter(link=article['link']).exists()`
CmdExists ==
    /\ cmd.pc = "exists"
    /\ cmd' = IF RowsByLink(news, cmd.article.link) # {}
              THEN NextCmd([cmd EXCEPT !.duplicates = @ + 1])
              ELSE [cmd EXCEPT !.pc = "create"]
    /\ UNCHANGED <<news, nextId, cache, rss, view, dd>>
    /\ UNCHANGED analysis_vars

\* `News.objects.create(...)`; an IntegrityError is caught by the loop's
\* `except Exception` and counted in stats['errors']
CmdCreate ==
    /\ cmd.pc = "create"
    /\ LET a == cmd.article
       IN  IF UniqueLinkViolated(news, a.link)
           THEN /\ cmd' = NextCmd([cmd EXCEPT !.errors = @ + 1])
                /\ UNCHANGED <<news, nextId>>
           ELSE /\ news' = news \cup
                      {NewsRow(nextId, a, a.content_hash, "general", "cmd")}
                /\ nextId' = nextId + 1
                /\ cmd' = NextCmd([cmd EXCEPT !.saved = @ + 1])
    /\ UNCHANGED <<cache, rss, view, dd>>
    /\ UNCHANGED analysis_vars

---------------------------------------------------------------------------
(* News.parse_news, called by the search views for each found item *)

NoObj == [id |-> 0]

ViewIdle ==
    [pc |-> "idle", item |-> None, kwd |-> None, obj |-> NoObj,
     created |-> FALSE,
     existed |-> FALSE]   \* was the item's link stored when the call began


\* the view calls News.parse_news(news_data, k_obj)
ParseStart ==
    /\ view.pc \in {"idle", "returned", "raised"}
    /\ \E a \in Articles, k \in Keywords :
          view' = [ViewIdle EXCEPT !.pc = "get", !.item = a, !.kwd = k,
                                   !.existed = RowsByLink(news, a.link) # {}]
    /\ UNCHANGED <<news, nextId, cache, rss, cmd, dd>>
    /\ UNCHANGED analysis_vars

\* get_or_create(title=, content_summary=, link=, keyword=): the SELECT
ParseGet ==
    /\ view.pc = "get"
    /\ LET found == RowsByParseKey(news, view.item, view.kwd)
       IN  view' = IF found # {}
                   THEN [view EXCEPT !.pc = "assign", !.created = FALSE,
                                     !.obj = CHOOSE r \in found : TRUE]
                   ELSE [view EXCEPT !.pc = "create"]
    /\ UNCHANGED <<news, nextId, cache, rss, cmd, dd>>
    /\ UNCHANGED analysis_vars

\* get_or_create: the INSERT (source NULL, content_hash NULL). On
\* IntegrityError it selects by the four fields again and, finding nothing,
\* re-raises the IntegrityError out of parse_news
ParseCreate ==
    /\ view.pc = "create"
    /\ LET found == RowsByParseKey(news, view.item, view.kwd)
           row == NewsRow(nextId, view.item, NoHash, view.kwd, None)
       IN  IF UniqueLinkViolated(news, view.item.link)
           THEN /\ view' = IF found # {}
                           THEN [view EXCEPT !.pc = "assign", !.created = FALSE,
                                             !.obj = CHOOSE r \in found : TRUE]
                           ELSE [view EXCEPT !.pc = "raised"]
                /\ UNCHANGED <<news, nextId>>
           ELSE /\ news' = news \cup {row}
                /\ nextId' = nextId + 1
                /\ view' = [view EXCEPT !.pc = "assign", !.created = TRUE,
                                        !.obj = row]
    /\ UNCHANGED <<cache, rss, cmd, dd>>
    /\ UNCHANGED analysis_vars

\* obj.source = ...; obj.keyword = kwd; `if created: obj.date = date;
\* obj.save()`; return obj. save() writes every field of obj to the row with
\* its primary key
ParseAssign ==
    /\ view.pc = "assign"
    /\ LET o == [view.obj EXCEPT !.source = LinkSource(view.obj.link),
                                 !.keyword = view.kwd]
       IN  /\ view' = [view EXCEPT !.pc = "returned", !.obj = o]
           /\ news' = IF view.created
                      THEN {r \in news : r.id # o.id} \cup {o}
                      ELSE news
    /\ UNCHANGED <<nextId, cache, rss, cmd, dd>>
    /\ UNCHANGED analysis_vars

---------------------------------------------------------------------------
(* Specifications over the store *)

DdIdle == [pc |-> "idle", batch |-> <<>>, unique |-> <<>>, cache0 |-> {}]

\* an empty store and cache; each source's feed content is fixed
InitIngest ==
    /\ news = {}
    /\ nextId = 1
    /\ cache = {}
    /\ rss \in [RssTasks -> {RssQueued(b) : b \in Feeds}]
    /\ \A w \in RssTasks : rss[w].feed \in FeedsOf(w)
    /\ cmd = CmdIdle
    /\ view = ViewIdle
    /\ dd = DdIdle
    /\ AnalysisIdle

RssStep(w) ==
    \/ RssStart(w)
    \/ RssDedupUrl(w)
    \/ RssDedupHash(w)
    \/ RssDedupMark(w)
    \/ RssSource(w)
    \/ RssSaveGet(w)
    \/ RssSaveCreate(w)
    \/ RssSaveError(w)
    \/ RssFail(w)

\* the scrape_rss_source tasks of two sources on the worker pool
NextIngest == \E w \in RssTasks : RssStep(w)

SpecIngest == InitIngest /\ [][NextIngest]_vars

\* the three ingestion paths side by side: the task of the second source,
\* save_articles_to_db and parse_news
InitStore ==
    /\ InitIngest
    /\ \A w \in RssTasks :
          rss[w].feed = <<NormalizedArticle("u1", <<"A">>, <<"s">>)>>

NextStore ==
    \/ RssStart("rss2")
    \/ RssDedupUrl("rss2")
    \/ RssDedupHash("rss2")
    \/ RssDedupMark("rss2")
    \/ RssSource("rss2")
    \/ RssSaveGet("rss2")
    \/ RssSaveCreate("rss2")
    \/ RssSaveError("rss2")
    \/ CmdStart
    \/ CmdNext
    \/ CmdExists
    \/ CmdCreate
    \/ ParseStart
    \/ ParseGet
    \/ ParseCreate
    \/ ParseAssign

SpecStore == InitStore /\ [][NextStore]_vars

---------------------------------------------------------------------------
(* deduplicate_articles called on a batch, against a store and a cache *)

\* articles as scrapers emit them, with or without a content_hash
DedupArticles == Articles \cup {[a EXCEPT !.content_hash = NoHash] : a \in Articles}

Batches == SeqsUpTo(DedupArticles, MaxBatch)

Hashes == {ArticleHash(a) : a \in DedupArticles}

LinkId(l) == IF l = "u1" THEN 1 ELSE 2

\* the stores ingestion can leave behind: at most one row for each link
Stores ==
    {{NewsRow(LinkId(a.link), a, a.content_hash, "general", "cmd") : a \in S} :
       S \in {T \in SUBSET Articles :
                 \A a \in T : \A b \in T : a.link = b.link => a = b}}

InitDedup ==
    /\ news \in Stores
    /\ nextId = 3
    /\ cache \in SUBSET Hashes
    /\ rss = [w \in RssTasks |->
                RssQueued(<<NormalizedArticle("u1", <<"A">>, <<"s">>)>>)]
    /\ cmd = CmdIdle
    /\ view = ViewIdle
    /\ dd \in {[pc |-> "idle", batch |-> b, unique |-> <<>>, cache0 |-> {}] :
                 b \in Batches}
    /\ AnalysisIdle

\* unique_articles = deduplicator.deduplicate_articles(articles)
DedupCall ==
    /\ dd.pc = "idle"
    /\ LET r == deduplicate_articles(dd.batch, news, cache)
       IN  /\ dd' = [dd EXCEPT !.pc = "done", !.unique = r.unique,
                               !.cache0 = cache]
           /\ cache' = r.cache
    /\ UNCHANGED <<news, nextId, rss, cmd, view>>
    /\ UNCHANGED analysis_vars

NextDedupCall == DedupCall

SpecDedup == InitDedup /\ [][NextDedupCall]_vars

---------------------------------------------------------------------------
(* AdvancedSentimentAnalyzer: the ensemble of four adapters *)

\* Scores are counted in tenths: 8 is 0.8.  A score that is None is the empty
\* sequence, a score s is <<s>>.  Quotients are kept as exact fractions
\* num/den (Python computes them in binary floating point, which agrees
\* with the exact value up to rounding in the last place).
Absent == <<>>

Some(s) == <<s>>

\* the keys of the results dict, in the order of the weights dict
Models == <<"gemini_score", "finbert_score", "vader_score", "textblob_score">>

\* an unweighted mean, for comparison
EqualWeights ==
    [gemini_score |-> 1, finbert_score |-> 1, vader_score |-> 1,
     textblob_score |-> 1]

\* weights of _calculate_composite_score, in tenths
weights ==
    [gemini_score |-> 4, finbert_score |-> 3, vader_score |-> 2,
     textblob_score |-> 1]

\* what an adapter's library can compute for a text
ScoreValues == {-10, -3, 2, 8, 10}

\* the numbers a Gemini response can open with
RawValues == {-15, -3, 8, 15}

\* how a library call can fail: the package is missing, or the call raises
Failures == {"ImportError", "Exception"}

Ok(s) == [ok |-> TRUE, score |-> s, error |-> ""]

Failed(e) == [ok |-> FALSE, score |-> 0, error |-> e]

\* what running an adapter's library on the text can do
LibraryOutcomes == {Ok(s) : s \in ScoreValues} \cup {Failed(e) : e \in Failures}

Response(number, raw) == [kind |-> "response", number |-> number, raw |-> raw]

Raised(e) == [kind |-> e, number |-> FALSE, raw |-> 0]

\* what one generate_content call can do: a response that opens with a
\* number or holds none, a genai ClientError, or any other exception
GeminiOutcomes ==
    {Response(TRUE, r) : r \in RawValues} \cup {Response(FALSE, 0)}
        \cup {Raised("ClientError"), Raised("Exception")}

\* _analyze_with_gemini(self, text, max_retries: int = 3)
gemini_max_retries == 3

\* max(-1.0, min(1.0, score)) of _parse_gemini_response; a response without
\* a number parses to None
parse_gemini_response(response) ==
    IF ~response.number THEN Absent
    ELSE Some(IF response.raw < -10 THEN -10
              ELSE IF response.raw > 10 THEN 10 ELSE response.raw)

\* a constant wait of one second, for comparison
ConstantBackoff(attempt) == 1

\* await asyncio.sleep(2 ** attempt)
backoff(attempt) == 2 ^ attempt

\* the dict an adapter returns
Dict(score) == [kind |-> "dict", score |-> score]

\* what is not a dict: the placeholder asyncio.sleep(0), FinBERT's None
NotDict == [kind |-> "None", score |-> Absent]

\* an adapter that reports a failure as a neutral score, for comparison
FailureAsNeutral(outcome) ==
    IF outcome.ok THEN Dict(Some(outcome.score)) ELSE Dict(Some(0))

\* _analyze_with_vader and _analyze_with_textblob: the library's score, or a
\* dict with score None when the import or the call fails
analyze_with_library(outcome) ==
    IF outcome.ok THEN Dict(Some(outcome.score)) ELSE Dict(Absent)

\* _analyze_with_finbert_sync: None when the model cannot be loaded or the
\* call raises
analyze_with_finbert_sync(outcome) ==
    IF outcome.ok THEN Dict(Some(outcome.score)) ELSE NotDict

\* if isinstance(result, dict): results[...] = result.get('score')
ResultScore(result) == IF result.kind = "dict" THEN result.score ELSE Absent

RECURSIVE WeightedLoop(_, _, _, _)
WeightedLoop(results, k, weighted_sum, total_weight) ==
    IF k > Len(Models)
    THEN [weighted_sum |-> weighted_sum, total_weight |-> total_weight]
    ELSE LET score == results[Models[k]]
             weight == weights[Models[k]]
         IN  IF score # Absent
             THEN WeightedLoop(results, k + 1, weighted_sum + score[1] * weight,
                               total_weight + weight)
             ELSE WeightedLoop(results, k + 1, weighted_sum, total_weight)

\* _calculate_composite_score, in tenths, as the fraction num/den
calculate_composite_score(results) ==
    LET acc == WeightedLoop(results, 1, 0, 0)
    IN  IF acc.total_weight > 0
        THEN [num |-> acc.weighted_sum, den |-> acc.total_weight]
        ELSE [num |-> 0, den |-> 1]

RECURSIVE SumSeq(_)
SumSeq(q) == IF q = <<>> THEN 0 ELSE Head(q) + SumSeq(Tail(q))

\* valid_scores = [s for s in scores if s is not None]
ValidScores(results) ==
    LET present == SelectSeq(Models, LAMBDA m : results[m] # Absent)
    IN  [k \in 1..Len(present) |-> results[present[k]][1]]

\* a confidence from the sample variance, for comparison
SampleVarianceConfidence(results) ==
    LET valid == ValidScores(results)
        n == Len(valid)
        S == SumSeq(valid)
        V == SumSeq([k \in 1..n |-> (n * valid[k] - S) * (n * valid[k] - S)])
        D == 100 * n * n * (n - 1)
    IN  IF n < 2
        THEN [num |-> 1, den |-> 2]
        ELSE [num |-> D - (IF V < D THEN V ELSE D), den |-> D]

\* _calculate_confidence, as the fraction num/den of 1: with n scores of sum
\* S the variance is sum((n*s - S)^2) / (100 * n^3)
calculate_confidence(results) ==
    LET valid == ValidScores(results)
        n == Len(valid)
        S == SumSeq(valid)
        V == SumSeq([k \in 1..n |-> (n * valid[k] - S) * (n * valid[k] - S)])
        D == 100 * n * n * n
    IN  IF n < 2
        THEN [num |-> 1, den |-> 2]
        ELSE [num |-> D - (IF V < D THEN V ELSE D), den |-> D]

NoOutcome == Failed("not run")

\* the results dict as analyze_sentiment first builds it
InitialResults ==
    [gemini_score |-> Absent, finbert_score |-> Absent, vader_score |-> Absent,
     textblob_score |-> Absent,
     composite_score |-> [num |-> 0, den |-> 1],
     confidence |-> [num |-> 0, den |-> 1]]

\* analyze_sentiment is called on an analyzer whose Gemini client was or was
\* not initialized
AnStart ==
    /\ an.pc \in {"idle", "returned"}
    /\ \E client \in BOOLEAN :
          an' = [pc |-> IF client THEN "gemini" ELSE "vader",
                 gemini_client |-> client, attempt |-> 0,
                 calls |-> <<>>, sleeps |-> <<>>,
                 gemini_result |-> NotDict, vader_result |-> NotDict,
                 textblob_result |-> NotDict,
                 outcome |-> [finbert_score |-> NoOutcome,
                             vader_score |-> NoOutcome,
                             textblob_score |-> NoOutcome],
                 results |-> InitialResults]
    /\ UNCHANGED <<news, nextId, cache, rss, cmd, view, dd>>
    /\ UNCHANGED <<az, sentiment_scores, nextScoreId, mentions>>
    /\ UNCHANGED aux_vars

\* one pass of the retry loop: generate_content is called; its response is
\* parsed and returned, a ClientError is followed by a sleep and another
\* attempt unless this was the last one, any other exception ends the loop
GeminiCall ==
    /\ an.pc = "gemini"
    /\ an.attempt < gemini_max_retries
    /\ \E o \in GeminiOutcomes :
          LET called == [an EXCEPT !.calls = Append(@, o)]
          IN  an' =
                IF o.kind = "response"
                THEN [called EXCEPT !.pc = "vader",
                         !.gemini_result = Dict(parse_gemini_response(o))]
                ELSE IF o.kind = "ClientError"
                        /\ an.attempt < gemini_max_retries - 1
                THEN [called EXCEPT !.sleeps = Append(@, backoff(an.attempt)),
                                    !.attempt = @ + 1]
                ELSE [called EXCEPT !.pc = "vader",
                                    !.gemini_result = Dict(Absent)]
    /\ UNCHANGED <<news, nextId, cache, rss, cmd, view, dd>>
    /\ UNCHANGED <<az, sentiment_scores, nextScoreId, mentions>>
    /\ UNCHANGED aux_vars

\* _analyze_with_vader
AnVader ==
    /\ an.pc = "vader"
    /\ \E o \in LibraryOutcomes :
          an' = [an EXCEPT !.pc = "textblob", !.outcome.vader_score = o,
                           !.vader_result = analyze_with_library(o)]
    /\ UNCHANGED <<news, nextId, cache, rss, cmd, view, dd>>
    /\ UNCHANGED <<az, sentiment_scores, nextScoreId, mentions>>
    /\ UNCHANGED aux_vars

\* _analyze_with_textblob
AnTextBlob ==
    /\ an.pc = "textblob"
    /\ \E o \in LibraryOutcomes :
          an' = [an EXCEPT !.pc = "gathered", !.outcome.textblob_score = o,
                           !.textblob_result = analyze_with_library(o)]
    /\ UNCHANGED <<news, nextId, cache, rss, cmd, view, dd>>
    /\ UNCHANGED <<az, sentiment_scores, nextScoreId, mentions>>
    /\ UNCHANGED aux_vars

\* asyncio.gather has returned: the three results are processed, FinBERT is
\* run, composite and confidence are computed and the results are returned
AnFinish ==
    /\ an.pc = "gathered"
    /\ \E o \in LibraryOutcomes :
          LET finbert_result == analyze_with_finbert_sync(o)
              scored == [an.results EXCEPT
                            !.gemini_score = ResultScore(an.gemini_result),
                            !.vader_score = ResultScore(an.vader_result),
                            !.textblob_score = ResultScore(an.textblob_result),
                            !.finbert_score = ResultScore(finbert_result)]
              composite == [scored EXCEPT
                              !.composite_score = calculate_composite_score(scored)]
          IN  an' = [an EXCEPT
                        !.pc = "returned", !.outcome.finbert_score = o,
                        !.results = [composite EXCEPT
                              !.confidence = calculate_confidence(composite)]]
    /\ UNCHANGED <<news, nextId, cache, rss, cmd, view, dd>>
    /\ UNCHANGED <<az, sentiment_scores, nextScoreId, mentions>>
    /\ UNCHANGED aux_vars

InitAnalyze ==
    /\ news = {}
    /\ nextId = 1
    /\ cache = {}
    /\ rss = [w \in RssTasks |->
                RssQueued(<<NormalizedArticle("u1", <<"A">>, <<"s">>)>>)]
    /\ cmd = CmdIdle
    /\ view = ViewIdle
    /\ dd = DdIdle
    /\ AnalysisIdle

NextAnalyze == AnStart \/ GeminiCall \/ AnVader \/ AnTextBlob \/ AnFinish

SpecAnalyze == InitAnalyze /\ [][NextAnalyze]_vars

---------------------------------------------------------------------------
(* analyze_article_sentiment: one celery task per delivery of a news id *)

AzTasks == {"az1", "az2"}

\* the rows of the Stock and Sector tables
Stocks == {"RELIANCE"}
SectorRows == {"Banking"}

\* mentioned_tickers followed by mentioned_sectors for the text of the
\* article: a listed stock, a symbol with no Stock row, a sector
Mentioned ==
    <<[kind |-> "ticker", name |-> "RELIANCE"],
      [kind |-> "ticker", name |-> "ZZZ"],
      [kind |-> "sector", name |-> "Banking"]>>

\* the composite scores an analysis of the article can come to, in tenths
Composites == {-8, 8}

\* a table without unique_together, for comparison
NoUniqueTogether(rows, n, ticker, sector) == FALSE

\* unique_together = [['news', 'ticker'], ['news', 'sector']]: an INSERT
\* fails with IntegrityError when a row has the same news and the same
\* non-NULL ticker, or the same news and the same non-NULL sector
UniqueTogetherViolated(rows, n, ticker, sector) ==
    \E r \in rows :
        /\ r.news = n
        /\ \/ ticker # None /\ r.ticker = ticker
           \/ sector # None /\ r.sector = sector

TickerOf(target) == IF target.kind = "ticker" THEN target.name ELSE None

SectorOf(target) == IF target.kind = "sector" THEN target.name ELSE None

\* SentimentScore.objects.get(news=news, ticker=stock) / get(news=, sector=)
ScoresByTarget(rows, n, target) ==
    {r \in rows : /\ r.news = n
                  /\ IF target.kind = "ticker" THEN r.ticker = target.name
                     ELSE r.sector = target.name}

\* Stock.objects.filter(symbol=).first() / Sector.objects.filter(name=).first()
EntityExists(target) ==
    IF target.kind = "ticker" THEN target.name \in Stocks
    ELSE target.name \in SectorRows

AzQueued ==
    [pc |-> "queued", news_id |-> 1, news_obj |-> NoObj, composite |-> 0,
     i |-> 1, obj |-> 0, raced |-> FALSE, retries |-> 0]

\* the two for loops moving to their next entry, or past the last one to
\* news.is_analyzed = True
NextTarget(t) ==
    IF t.i + 1 > Len(Mentioned)
    THEN [t EXCEPT !.pc = "mark", !.i = 1, !.obj = 0]
    ELSE [t EXCEPT !.pc = "lookup", !.i = @ + 1, !.obj = 0]

\* a worker takes the task: News.objects.get(id=news_id), the analysis of
\* the text, news.impact_rating = composite on the loaded object
AzStart(t) ==
    /\ az[t].pc = "queued"
    /\ IF \E r \in news : r.id = az[t].news_id
       THEN \E c \in Composites :
               LET row == CHOOSE r \in news : r.id = az[t].news_id
               IN  az' = [az EXCEPT ![t] =
                            [@ EXCEPT !.pc = "lookup", !.i = 1, !.composite = c,
                                      !.news_obj = [row EXCEPT !.impact_rating = c]]]
       ELSE az' = [az EXCEPT ![t] = [@ EXCEPT !.pc = "done"]]
    /\ UNCHANGED <<news, nextId, cache, rss, cmd, view, dd>>
    /\ UNCHANGED <<an, sentiment_scores, nextScoreId, mentions>>
    /\ UNCHANGED aux_vars

\* the Stock or Sector row is looked up; without one the entry is skipped,
\* with one it is added to news.tickers / news.sectors. The relation row
\* references the News row: when that row is gone the INSERT fails with
\* IntegrityError, which the loop's except logs before going on
AzLookup(t) ==
    /\ az[t].pc = "lookup"
    /\ IF EntityExists(Mentioned[az[t].i]) /\ NewsExists(news, az[t].news_id)
       THEN /\ mentions' = mentions \cup
                   {<<az[t].news_id, Mentioned[az[t].i].kind, Mentioned[az[t].i].name>>}
            /\ az' = [az EXCEPT ![t] = [@ EXCEPT !.pc = "get"]]
       ELSE /\ az' = [az EXCEPT ![t] = NextTarget(@)]
            /\ UNCHANGED mentions
    /\ UNCHANGED <<news, nextId, cache, rss, cmd, view, dd>>
    /\ UNCHANGED <<an, sentiment_scores, nextScoreId>>
    /\ UNCHANGED aux_vars

\* update_or_create: the SELECT by (news, ticker) or (news, sector)
AzGet(t) ==
    /\ az[t].pc = "get"
    /\ LET found == ScoresByTarget(sentiment_scores, az[t].news_id, Mentioned[az[t].i])
       IN  az' = [az EXCEPT ![t] =
                    IF found # {}
                    THEN [@ EXCEPT !.pc = "update",
                                   !.obj = (CHOOSE r \in found : TRUE).id]
                    ELSE [@ EXCEPT !.pc = "create"]]
    /\ UNCHANGED <<news, nextId, cache, rss, cmd, view, dd>>
    /\ UNCHANGED <<an, sentiment_scores, nextScoreId, mentions>>
    /\ UNCHANGED aux_vars

\* update_or_create: the INSERT with the defaults; on IntegrityError the row
\* is fetched again and updated, and if it is gone the error is logged and
\* the loop goes on
AzCreate(t) ==
    /\ az[t].pc = "create"
    /\ LET target == Mentioned[az[t].i]
           found == ScoresByTarget(sentiment_scores, az[t].news_id, target)
       IN  IF \/ UniqueTogetherViolated(sentiment_scores, az[t].news_id,
                                        TickerOf(target), SectorOf(target))
              \/ ~NewsExists(news, az[t].news_id)   \* the foreign key
           THEN /\ az' = [az EXCEPT ![t] =
                            IF found # {}
                            THEN [@ EXCEPT !.pc = "update", !.raced = TRUE,
                                           !.obj = (CHOOSE r \in found : TRUE).id]
                            ELSE NextTarget(@)]
                /\ UNCHANGED <<sentiment_scores, nextScoreId>>
           ELSE /\ sentiment_scores' = sentiment_scores \cup
                       {[id |-> nextScoreId, news |-> az[t].news_id,
                         ticker |-> TickerOf(target), sector |-> SectorOf(target),
                         sentiment_score |-> az[t].composite]}
                /\ nextScoreId' = nextScoreId + 1
                /\ az' = [az EXCEPT ![t] = NextTarget(@)]
    /\ UNCHANGED <<news, nextId, cache, rss, cmd, view, dd>>
    /\ UNCHANGED <<an, mentions>>
    /\ UNCHANGED aux_vars

\* update_or_create: the defaults are set on the fetched row and it is saved
AzUpdate(t) ==
    /\ az[t].pc = "update"
    /\ sentiment_scores' =
          {IF r.id = az[t].obj THEN [r EXCEPT !.sentiment_score = az[t].composite]
           ELSE r : r \in sentiment_scores}
    /\ az' = [az EXCEPT ![t] = NextTarget(@)]
    /\ UNCHANGED <<news, nextId, cache, rss, cmd, view, dd>>
    /\ UNCHANGED <<an, nextScoreId, mentions>>
    /\ UNCHANGED aux_vars

\* Model.save() of an object loaded from the table: an UPDATE of every field
\* of the object where the primary key matches and, when no row matched, an
\* INSERT of the object, which the UNIQUE link may refuse
Save(rows, obj) ==
    IF NewsExists(rows, obj.id)
    THEN {IF r.id = obj.id THEN obj ELSE r : r \in rows}
    ELSE rows \cup {obj}

SaveRefused(rows, obj) ==
    ~NewsExists(rows, obj.id) /\ UniqueLinkViolated(rows, obj.link)

\* news.is_analyzed = True; news.save()
AzMark(t) ==
    /\ az[t].pc = "mark"
    /\ ~SaveRefused(news, az[t].news_obj)
    /\ news' = Save(news, [az[t].news_obj EXCEPT !.is_analyzed = TRUE])
    /\ az' = [az EXCEPT ![t] = [@ EXCEPT !.pc = "done"]]
    /\ UNCHANGED <<nextId, cache, rss, cmd, view, dd>>
    /\ UNCHANGED <<an, sentiment_scores, nextScoreId, mentions>>
    /\ UNCHANGED aux_vars

\* an exception outside the two loops (the database refusing news.save()):
\* raise self.retry(exc=e) queues the task again, max_retries times
AzFail(t) ==
    /\ az[t].pc = "mark"
    /\ az' = [az EXCEPT ![t] =
                IF @.retries < max_retries
                THEN [AzQueued EXCEPT !.retries = az[t].retries + 1,
                                      !.raced = az[t].raced]
                ELSE [@ EXCEPT !.pc = "failed"]]
    /\ UNCHANGED <<news, nextId, cache, rss, cmd, view, dd>>
    /\ UNCHANGED <<an, sentiment_scores, nextScoreId, mentions>>
    /\ UNCHANGED aux_vars

\* the broker delivers a finished task again, or the id is queued once more
\* (analyze_pending_articles, a second .delay)
AzRedeliver(t) ==
    /\ az[t].pc = "done"
    /\ az' = [az EXCEPT ![t] = [AzQueued EXCEPT !.retries = az[t].retries,
                                                !.raced = az[t].raced]]
    /\ UNCHANGED <<news, nextId, cache, rss, cmd, view, dd>>
    /\ UNCHANGED <<an, sentiment_scores, nextScoreId, mentions>>
    /\ UNCHANGED aux_vars

InitScore ==
    /\ news = {NewsRow(1, NormalizedArticle("u1", <<"A">>, <<"s">>),
                       BaseGenerateContentHash(<<"A">>, <<"s">>), "general", "rss1")}
    /\ nextId = 2
    /\ cache = {}
    /\ rss = [w \in RssTasks |->
                RssQueued(<<NormalizedArticle("u1", <<"A">>, <<"s">>)>>)]
    /\ cmd = CmdIdle
    /\ view = ViewIdle
    /\ dd = DdIdle
    /\ an = [pc |-> "idle"]
    /\ az = [t \in AzTasks |-> AzQueued]
    /\ sentiment_scores = {}
    /\ nextScoreId = 1
    /\ mentions = {}
    /\ AuxIdle

AzStep(t) ==
    \/ AzStart(t)
    \/ AzLookup(t)
    \/ AzGet(t)
    \/ AzCreate(t)
    \/ AzUpdate(t)
    \/ AzMark(t)
    \/ AzFail(t)
    \/ AzRedeliver(t)

NextScore == \E t \in AzTasks : AzStep(t)

SpecScore == InitScore /\ [][NextScore]_vars

---------------------------------------------------------------------------
(* Properties of the store *)

\* C1: in every reachable state no two rows of the News table carry the
\* same link, whatever the interleaving of scrape_rss_source,
\* save_articles_to_db and parse_news.
C1_UniqueLinks ==
    \A r1 \in news : \A r2 \in news : r1.link = r2.link => r1.id = r2.id

\* C1 witness: save_articles_to_db lost a race (its INSERT was refused after
\* its exists() test had found nothing) and both links are stored.
C1_Witness ==
    /\ cmd.errors > 0
    /\ StoredLinks(news) = Links

\* C2 (as claimed): a step of an ingestion of an item whose link is already
\* stored changes no row and adds none, parse_news does not raise, and it
\* returns the row that was stored.
C2_ReingestionIsNoOp ==
    [][ /\ (view.existed /\ view' # view /\ view.pc \in {"get", "create", "assign"})
            => /\ news' = news
               /\ view'.pc # "raised"
               /\ view'.pc = "returned" =>
                     view'.obj.id \in {r.id : r \in RowsByLink(news, view.item.link)}
        /\ (cmd' # cmd /\ cmd.pc \in {"exists", "create"}
                /\ RowsByLink(news, cmd.article.link) # {})
            => news' = news
        /\ \A w \in RssTasks :
              (rss'[w] # rss[w] /\ rss[w].pc \in {"save_get", "save_create"}
                  /\ RowsByLink(news, rss[w].unique_articles[rss[w].i].link) # {})
              => news' = news
      ]_vars

\* C4 (as claimed): when a scrape_rss_source task that was retried has
\* returned, having saved every article its deduplication kept, and no other
\* ingestion ran, the stored links are those one uninterrupted run on the same
\* feed stores.
C4_RetryStoresWhatOneRunStores ==
    \A w \in RssTasks :
        ( /\ rss[w].pc = "done"
          /\ rss[w].retries > 0
          /\ rss[w].saved_count = Len(rss[w].unique_articles)
          /\ \A v \in RssTasks \ {w} : rss[v].pc = "queued" /\ rss[v].retries = 0 )
        => StoredLinks(news) =
              {a.link : a \in Range(deduplicate_articles(rss[w].feed, {}, {}).unique)}

---------------------------------------------------------------------------
(* Properties of deduplicate_articles *)

\* the articles of the batch whose link is stored (the K of the claim)
PersistedIdx == {k \in 1..Len(dd.batch) : dd.batch[k].link \in StoredLinks(news)}

FreshIdx == (1..Len(dd.batch)) \ PersistedIdx

UrlsPairwiseDistinct(s) ==
    \A i \in 1..Len(s) : \A j \in 1..Len(s) : s[i].link = s[j].link => i = j

\* the fingerprint the loop uses for the k-th article of the batch
BatchHash(k) ==
    IF dd.batch[k].content_hash = NoHash
    THEN Sha256(Strip(LowerStr(LowerStr(dd.batch[k].title)
                                 \o LowerStr(dd.batch[k].content_summary))))
    ELSE dd.batch[k].content_hash

\* C5 (as claimed): of N articles, K with a stored link, exactly N-K are
\* returned, with pairwise distinct links.
C5_ReturnsExactlyNMinusK ==
    dd.pc = "done" =>
        /\ Len(dd.unique) = Len(dd.batch) - Cardinality(PersistedIdx)
        /\ UrlsPairwiseDistinct(dd.unique)

\* the articles with no stored link have pairwise distinct links and pairwise
\* distinct fingerprints, none of them marked seen before the call
FreshAllNew ==
    \A i \in FreshIdx :
        /\ BatchHash(i) \notin dd.cache0
        /\ \A j \in FreshIdx :
              i # j => /\ dd.batch[i].link # dd.batch[j].link
                       /\ BatchHash(i) # BatchHash(j)

\* C5 (amended): at most N-K articles are returned, exactly N-K precisely
\* when the articles with no stored link have pairwise distinct links and
\* pairwise distinct fingerprints none of which is marked seen; the returned
\* links are pairwise distinct.
C5_ReturnsAtMostNMinusK ==
    dd.pc = "done" =>
        /\ Len(dd.unique) <= Len(dd.batch) - Cardinality(PersistedIdx)
        /\ (Len(dd.unique) = Len(dd.batch) - Cardinality(PersistedIdx)) <=> FreshAllNew
        /\ UrlsPairwiseDistinct(dd.unique)

\* C5 witness: a batch with a stored link, of which something is returned
\* but fewer than N-K articles.
C5_Witness ==
    /\ dd.pc = "done"
    /\ PersistedIdx # {}
    /\ dd.unique # <<>>
    /\ Len(dd.unique) < Len(dd.batch) - Cardinality(PersistedIdx)

\* the set Kp of batch positions is the set of kept articles: a position is
\* in it exactly when its link is not stored and is not the link of an
\* earlier kept position, and its fingerprint is not marked seen and is not
\* the fingerprint of an earlier kept position
IsKeptSet(Kp) ==
    \A j \in 1..Len(dd.batch) :
        j \in Kp <=>
            ~ \/ dd.batch[j].link \in StoredLinks(news)
              \/ \E i \in Kp : i < j /\ dd.batch[i].link = dd.batch[j].link
              \/ BatchHash(j) \in dd.cache0
              \/ \E i \in Kp : i < j /\ BatchHash(i) = BatchHash(j)

\* the k-th smallest element of a set of positions
RECURSIVE NthOf(_, _)
NthOf(S, k) ==
    LET m == CHOOSE x \in S : \A y \in S : x <= y
    IN  IF k = 1 THEN m ELSE NthOf(S \ {m}, k - 1)

\* C6: the returned list is the batch restricted, in order, to the kept
\* positions (each article with its fingerprint filled in); no two returned
\* articles share a link or a fingerprint; an article is left out exactly
\* when its link is stored or is that of an earlier kept article, or its
\* fingerprint is marked seen or is that of an earlier kept article; and
\* afterwards the fingerprint of every returned article is marked seen.
C6_OrderPreservingUniqueSubset ==
    dd.pc = "done" =>
        \E Kp \in SUBSET (1..Len(dd.batch)) :
            /\ IsKeptSet(Kp)
            /\ Len(dd.unique) = Cardinality(Kp)
            /\ \A k \in 1..Len(dd.unique) :
                  /\ dd.unique[k] =
                        [dd.batch[NthOf(Kp, k)] EXCEPT
                            !.content_hash = BatchHash(NthOf(Kp, k))]
                  /\ dd.unique[k].content_hash \in cache
            /\ \A i \in 1..Len(dd.unique) : \A j \in 1..Len(dd.unique) :
                  i # j => /\ dd.unique[i].link # dd.unique[j].link
                           /\ dd.unique[i].content_hash # dd.unique[j].content_hash

\* C6 witness: of a batch of three articles with no stored link, the first
\* is left out because its fingerprint was marked seen before the call, the
\* second is kept, and the third, under another link, is left out because
\* its fingerprint is that of the second.
C6_Witness ==
    /\ dd.pc = "done"
    /\ Len(dd.batch) = 3
    /\ PersistedIdx = {}
    /\ BatchHash(1) \in dd.cache0
    /\ dd.unique = <<[dd.batch[2] EXCEPT !.content_hash = BatchHash(2)]>>
    /\ dd.batch[3].link # dd.batch[2].link
    /\ BatchHash(3) = BatchHash(2)

---------------------------------------------------------------------------
(* Properties of the ensemble *)

RECURSIVE SumFn(_, _)
SumFn(f, D) ==
    IF D = {} THEN 0
    ELSE LET x == CHOOSE y \in D : TRUE IN f[x] + SumFn(f, D \ {x})

ModelKeys == {"gemini_score", "finbert_score", "vader_score", "textblob_score"}

\* the adapters whose score is present in the returned results
Present == {m \in ModelKeys : an.results[m] # Absent}

\* the score an adapter's run stands for: absent when the adapter was
\* unavailable, raised or produced no score
ExpectedScore(m) ==
    IF m = "gemini_score"
    THEN IF an.gemini_client /\ an.calls # <<>>
             /\ an.calls[Len(an.calls)].kind = "response"
             /\ an.calls[Len(an.calls)].number
         THEN LET raw == an.calls[Len(an.calls)].raw
              IN  Some(IF raw < -10 THEN -10 ELSE IF raw > 10 THEN 10 ELSE raw)
         ELSE Absent
    ELSE IF an.outcome[m].ok THEN Some(an.outcome[m].score) ELSE Absent

\* the fixed weights, in tenths
W == [m \in ModelKeys |->
        IF m = "gemini_score" THEN 4 ELSE IF m = "finbert_score" THEN 3
        ELSE IF m = "vader_score" THEN 2 ELSE 1]

PresentScore == [m \in Present |-> an.results[m][1]]

\* the fraction q equals a/b
FracEq(q, a, b) == q.num * b = q.den * a

\* the confidence of the present scores: 0.5 for fewer than two, else one
\* minus their population variance capped at 1
ConfidenceOfPresent(q) ==
    LET n == Cardinality(Present)
        S == SumFn(PresentScore, Present)
        V == SumFn([m \in Present |-> (n * PresentScore[m] - S)
                                        * (n * PresentScore[m] - S)], Present)
        D == 100 * n * n * n
    IN  IF n < 2 THEN FracEq(q, 1, 2)
        ELSE FracEq(q, D - (IF V < D THEN V ELSE D), D)

\* C7: whichever adapters are unavailable, raise or give no score, the
\* analysis returns: the score of each such adapter is absent, the score of
\* every other adapter is the one it produced, and composite and confidence
\* are those of the present scores alone.
C7_ToleratesFailedAdapters ==
    an.pc = "returned" =>
        /\ \A m \in ModelKeys : an.results[m] = ExpectedScore(m)
        /\ IF Present = {}
           THEN FracEq(an.results.composite_score, 0, 1)
           ELSE FracEq(an.results.composite_score,
                       SumFn([m \in Present |-> W[m] * PresentScore[m]], Present),
                       SumFn(W, Present))
        /\ ConfidenceOfPresent(an.results.confidence)

\* C7 witness: the Gemini client is missing, FinBERT cannot be loaded, VADER
\* raises, and the analysis returns with TextBlob's score as the composite.
C7_Witness ==
    /\ an.pc = "returned"
    /\ ~an.gemini_client
    /\ an.outcome.finbert_score = Failed("ImportError")
    /\ an.outcome.vader_score = Failed("Exception")
    /\ an.outcome.textblob_score = Ok(8)
    /\ Present = {"textblob_score"}
    /\ FracEq(an.results.composite_score, 8, 1)

\* C8: the Gemini adapter makes at most three calls; every call but the last
\* ended in a ClientError and was followed by a sleep of 2^attempt seconds;
\* when the loop is over, a response gives its parsed score, any other
\* exception gives an absent score at once, and a ClientError gives an absent
\* score only as the third call; the analysis then returns that score.
C8_GeminiRetriesBounded ==
    an.pc # "idle" =>
        LET n == Len(an.calls)
            over == an.pc # "gemini"
        IN  /\ n <= 3
            /\ \A k \in 1..(n - 1) : an.calls[k].kind = "ClientError"
            /\ Len(an.sleeps) = (IF over /\ n > 0 THEN n - 1 ELSE n)
            /\ \A k \in 1..Len(an.sleeps) : an.sleeps[k] = 2 ^ (k - 1)
            /\ ~over /\ n > 0 => an.calls[n].kind = "ClientError"
            /\ over /\ n > 0 =>
                  /\ an.calls[n].kind = "ClientError" => n = 3
                  /\ an.gemini_result.kind = "dict"
                  /\ an.gemini_result.score = ExpectedScore("gemini_score")
                  /\ an.calls[n].kind # "response" => an.gemini_result.score = Absent
            /\ an.pc = "returned" =>
                  an.results.gemini_score = ExpectedScore("gemini_score")

\* C8 witness: three calls each ending in a ClientError, sleeps of 1 and 2
\* seconds between them, and the analysis returned with the Gemini score
\* absent and another score present.
C8_Witness ==
    /\ an.pc = "returned"
    /\ Len(an.calls) = 3
    /\ \A k \in 1..3 : an.calls[k].kind = "ClientError"
    /\ an.sleeps = <<1, 2>>
    /\ an.results.gemini_score = Absent
    /\ Present # {}

\* C9 (as claimed): the composite is within [-1, 1] whichever scores are
\* present, and with no score present composite and confidence are both 0.0.
C9_CompositeInRangeZeroWhenEmpty ==
    an.pc = "returned" =>
        /\ -10 * an.results.composite_score.den <= an.results.composite_score.num
        /\ an.results.composite_score.num <= 10 * an.results.composite_score.den
        /\ Present = {} =>
              /\ FracEq(an.results.composite_score, 0, 1)
              /\ FracEq(an.results.confidence, 0, 1)

\* C10: with a score present, the composite is the weighted mean of the
\* present scores under the weights 0.4, 0.3, 0.2, 0.1; a lexicon score of
\* 0.8 and a general polarity of 0.2 alone give 0.6; a single present score
\* is the composite.
C10_CompositeIsWeightedMean ==
    (an.pc = "returned" /\ Present # {}) =>
        /\ FracEq(an.results.composite_score,
                  SumFn([m \in Present |-> W[m] * PresentScore[m]], Present),
                  SumFn(W, Present))
        /\ ( /\ Present = {"vader_score", "textblob_score"}
             /\ an.results.vader_score = Some(8)
             /\ an.results.textblob_score = Some(2) )
              => FracEq(an.results.composite_score, 6, 1)
        /\ \A m \in ModelKeys :
              Present = {m} => FracEq(an.results.composite_score, PresentScore[m], 1)

\* C10 witness: only the lexicon score 0.8 and the general polarity 0.2 are
\* present and the composite is 0.6.
C10_Witness ==
    /\ an.pc = "returned"
    /\ Present = {"vader_score", "textblob_score"}
    /\ an.results.vader_score = Some(8)
    /\ an.results.textblob_score = Some(2)
    /\ FracEq(an.results.composite_score, 6, 1)

---------------------------------------------------------------------------
(* Properties of the SentimentScore table *)

\* C3: there is never more than one SentimentScore row for an Article and a
\* Ticker, nor for an Article and a Sector, however often and however
\* interleaved analyze_article_sentiment runs for the Article.
C3_OneScorePerEntity ==
    \A r1 \in sentiment_scores : \A r2 \in sentiment_scores :
        ( /\ r1.news = r2.news
          /\ \/ r1.ticker # None /\ r1.ticker = r2.ticker
             \/ r1.sector # None /\ r1.sector = r2.sector )
        => r1.id = r2.id

\* C3 witness: two runs raced on the same pair, the loser's INSERT was
\* refused and it updated the winner's row; both runs are over and the table
\* holds the ticker's row and the sector's row.
C3_Witness ==
    /\ \A t \in AzTasks : az[t].pc = "done"
    /\ \E t \in AzTasks : az[t].raced
    /\ Cardinality(sentiment_scores) = 2
    /\ \E r \in sentiment_scores : r.ticker = "RELIANCE"
    /\ \E r \in sentiment_scores : r.sector = "Banking"

---------------------------------------------------------------------------
(* The two confidence functions, called on a drawn dict of scores *)

\* every dict of scores: some of the four keys, each with a score or None
ScoreDicts ==
    UNION {[K -> {Absent} \cup {Some(v) : v \in ScoreValues}] : K \in SUBSET ModelKeys}

\* results.get(key) for each of the four keys
Results(scores) ==
    [m \in ModelKeys |-> IF m \in DOMAIN scores THEN scores[m] ELSE Absent]

\* sentiment.utils.calculate_confidence: 0.0 for an empty dict, 0.5 for
\* fewer than two scores, else one minus the variance capped at 1
utils_calculate_confidence(scores) ==
    LET valid == ValidScores(Results(scores))
        n == Len(valid)
        S == SumSeq(valid)
        V == SumSeq([k \in 1..n |-> (n * valid[k] - S) * (n * valid[k] - S)])
        D == 100 * n * n * n
    IN  IF DOMAIN scores = {} THEN [num |-> 0, den |-> 1]
        ELSE IF n < 2 THEN [num |-> 1, den |-> 2]
        ELSE [num |-> D - (IF V < D THEN V ELSE D), den |-> D]

InitConfidence ==
    /\ news = {}
    /\ nextId = 1
    /\ cache = {}
    /\ rss = [w \in RssTasks |->
                RssQueued(<<NormalizedArticle("u1", <<"A">>, <<"s">>)>>)]
    /\ cmd = CmdIdle
    /\ view = ViewIdle
    /\ dd = DdIdle
    /\ an = [pc |-> "idle"]
    /\ az = <<>>
    /\ sentiment_scores = {}
    /\ nextScoreId = 1
    /\ mentions = {}
    /\ rate = [pc |-> "idle"]
    /\ clean = [pc |-> "idle"]
    /\ call \in {[pc |-> "idle", scores |-> d,
                  confidence |-> [num |-> 0, den |-> 1],
                  utils_confidence |-> [num |-> 0, den |-> 1]] : d \in ScoreDicts}

\* self._calculate_confidence(results) and calculate_confidence(scores)
ConfidenceCall ==
    /\ call.pc = "idle"
    /\ call' = [call EXCEPT
                  !.pc = "done",
                  !.confidence = calculate_confidence(Results(call.scores)),
                  !.utils_confidence = utils_calculate_confidence(call.scores)]
    /\ UNCHANGED <<news, nextId, cache, rss, cmd, view, dd>>
    /\ UNCHANGED <<an, az, sentiment_scores, nextScoreId, mentions, rate, clean>>

NextConfidence == ConfidenceCall

SpecConfidence == InitConfidence /\ [][NextConfidence]_vars

\* the keys of the drawn dict that carry a score
PresentIn(scores) == {m \in DOMAIN scores : scores[m] # Absent}

\* q is one minus the population variance, capped at 1, of the scores
\* present in the dict (two or more of them)
IsOneMinusVariance(q, scores) ==
    LET P == PresentIn(scores)
        n == Cardinality(P)
        S == SumFn([m \in P |-> scores[m][1]], P)
        V == SumFn([m \in P |-> (n * scores[m][1] - S) * (n * scores[m][1] - S)], P)
        D == 100 * n * n * n
    IN  FracEq(q, D - (IF V < D THEN V ELSE D), D)

ConfidenceAsClaimed(q, scores) ==
    LET P == PresentIn(scores)
    IN  /\ Cardinality(P) >= 2 => IsOneMinusVariance(q, scores)
        /\ Cardinality(P) = 1 => FracEq(q, 1, 2)
        /\ P # {} => 0 <= q.num /\ q.num <= q.den
        /\ ( /\ Cardinality(P) >= 2
             /\ \A m1 \in P : \A m2 \in P : scores[m1] = scores[m2] )
              => FracEq(q, 1, 1)

\* C11: with two or more scores present the confidence is one minus their
\* population variance capped at 1, with exactly one it is 0.5; it lies in
\* [0, 1], and it is 1.0 when the two or more present scores are all equal.
\* Both implementations behave so.
C11_ConfidenceFromVariance ==
    call.pc = "done" =>
        /\ ConfidenceAsClaimed(call.confidence, call.scores)
        /\ ConfidenceAsClaimed(call.utils_confidence, call.scores)

\* C11 witness: three equal scores give confidence 1.0 from both functions.
C11_Witness ==
    /\ call.pc = "done"
    /\ Cardinality(PresentIn(call.scores)) = 3
    /\ \A m \in PresentIn(call.scores) : call.scores[m] = Some(8)
    /\ FracEq(call.confidence, 1, 1)
    /\ FracEq(call.utils_confidence, 1, 1)

---------------------------------------------------------------------------
(* The two get_sentiment_label functions, called on a drawn score *)

\* q <= a/10 for a fraction q of tenths with a positive denominator
FracLeq(q, a) == q.num <= a * q.den

\* a labelling with exclusive upper bounds, for comparison
ExclusiveBoundLabel(score) ==
    IF score.num < -6 * score.den THEN "very_negative"
    ELSE IF score.num < -2 * score.den THEN "negative"
    ELSE IF score.num < 2 * score.den THEN "neutral"
    ELSE IF score.num < 6 * score.den THEN "positive"
    ELSE "very_positive"

\* AdvancedSentimentAnalyzer.get_sentiment_label
get_sentiment_label(score) ==
    IF FracLeq(score, -6) THEN "very_negative"
    ELSE IF FracLeq(score, -2) THEN "negative"
    ELSE IF FracLeq(score, 2) THEN "neutral"
    ELSE IF FracLeq(score, 6) THEN "positive"
    ELSE "very_positive"

\* SentimentScore.get_sentiment_label
model_get_sentiment_label(score) ==
    IF FracLeq(score, -6) THEN "very_negative"
    ELSE IF FracLeq(score, -2) THEN "negative"
    ELSE IF FracLeq(score, 2) THEN "neutral"
    ELSE IF FracLeq(score, 6) THEN "positive"
    ELSE "very_positive"

\* the scores from -1.00 to 1.00 in steps of 0.01, as fractions of tenths
LabelScores == {[num |-> n, den |-> 10] : n \in -100..100}

InitLabel ==
    /\ news = {}
    /\ nextId = 1
    /\ cache = {}
    /\ rss = [w \in RssTasks |->
                RssQueued(<<NormalizedArticle("u1", <<"A">>, <<"s">>)>>)]
    /\ cmd = CmdIdle
    /\ view = ViewIdle
    /\ dd = DdIdle
    /\ an = [pc |-> "idle"]
    /\ az = <<>>
    /\ sentiment_scores = {}
    /\ nextScoreId = 1
    /\ mentions = {}
    /\ rate = [pc |-> "idle"]
    /\ clean = [pc |-> "idle"]
    /\ call \in {[pc |-> "idle", score |-> q, label |-> "", model_label |-> ""] :
                   q \in LabelScores}

LabelCall ==
    /\ call.pc = "idle"
    /\ call' = [call EXCEPT !.pc = "done",
                            !.label = get_sentiment_label(call.score),
                            !.model_label = model_get_sentiment_label(call.score)]
    /\ UNCHANGED <<news, nextId, cache, rss, cmd, view, dd>>
    /\ UNCHANGED <<an, az, sentiment_scores, nextScoreId, mentions, rate, clean>>

NextLabel == LabelCall

SpecLabel == InitLabel /\ [][NextLabel]_vars

\* the label claimed for a score of n hundredths
ClaimedLabel(n) ==
    IF n <= -60 THEN "very_negative"
    ELSE IF n <= -20 THEN "negative"
    ELSE IF n <= 20 THEN "neutral"
    ELSE IF n <= 60 THEN "positive"
    ELSE "very_positive"

\* the labels claimed for the seven listed scores, in hundredths
ListedLabels ==
    {<<-100, "very_negative">>, <<-60, "very_negative">>, <<-20, "negative">>,
     <<0, "neutral">>, <<20, "neutral">>, <<60, "positive">>,
     <<100, "very_positive">>}

\* C12: every score has one label, given by the inclusive upper bounds
\* -0.6, -0.2, 0.2, 0.6; the seven listed scores have the listed labels; the
\* analyzer's and the model's functions give the same label.
C12_LabelByInclusiveBounds ==
    call.pc = "done" =>
        /\ call.label = ClaimedLabel(call.score.num)
        /\ call.model_label = call.label
        /\ \A e \in ListedLabels : call.score.num = e[1] => call.label = e[2]

\* C12 witness: the score 0.6, on the bound, is labelled positive by both.
C12_Witness ==
    /\ call.pc = "done"
    /\ call.score = [num |-> 60, den |-> 10]
    /\ call.label = "positive"
    /\ call.model_label = "positive"

---------------------------------------------------------------------------
(* The rate limiter of _analyze_with_gemini, with time in whole seconds *)

\* the analyzer instances of the worker process: each
\* analyze_article_sentiment run builds its own
Analyzers == {"a1", "a2"}

\* self.min_call_interval = 1.0
min_call_interval == 1

\* AdvancedSentimentAnalyzer.__init__: self.last_gemini_call = 0
NewAnalyzer == [pc |-> "check", last_gemini_call |-> 0, attempt |-> 0, wake |-> 0]

InitRate ==
    /\ news = {}
    /\ nextId = 1
    /\ cache = {}
    /\ rss = [w \in RssTasks |->
                RssQueued(<<NormalizedArticle("u1", <<"A">>, <<"s">>)>>)]
    /\ cmd = CmdIdle
    /\ view = ViewIdle
    /\ dd = DdIdle
    /\ an = [pc |-> "idle"]
    /\ az = <<>>
    /\ sentiment_scores = {}
    /\ nextScoreId = 1
    /\ mentions = {}
    /\ call = [pc |-> "idle"]
    /\ clean = [pc |-> "idle"]
    /\ rate = [pc |-> "running", clock |-> 1, calls |-> <<>>,
               inst |-> [a \in Analyzers |-> [NewAnalyzer EXCEPT !.pc = "idle"]]]

RateUnchanged ==
    /\ UNCHANGED <<news, nextId, cache, rss, cmd, view, dd>>
    /\ UNCHANGED <<an, az, sentiment_scores, nextScoreId, mentions, call, clean>>

\* a task builds its analyzer and the analysis enters _analyze_with_gemini
RateNew(a) ==
    /\ rate.inst[a].pc \in {"idle", "done"}
    /\ rate' = [rate EXCEPT !.inst[a] = NewAnalyzer]
    /\ RateUnchanged

\* analyze_sentiment is called once more on the same analyzer
RateAgain(a) ==
    /\ rate.inst[a].pc = "done"
    /\ rate' = [rate EXCEPT !.inst[a].pc = "check", !.inst[a].attempt = 0]
    /\ RateUnchanged

\* time_since_last_call = time.time() - self.last_gemini_call; below
\* min_call_interval the coroutine sleeps for the difference
RateCheck(a) ==
    /\ rate.inst[a].pc = "check"
    /\ LET time_since_last_call == rate.clock - rate.inst[a].last_gemini_call
       IN  rate' = IF time_since_last_call < min_call_interval
                   THEN [rate EXCEPT !.inst[a].pc = "sleeping",
                            !.inst[a].wake = rate.clock
                                + (min_call_interval - time_since_last_call)]
                   ELSE [rate EXCEPT !.inst[a].pc = "loop"]
    /\ RateUnchanged

\* asyncio.sleep returns, not before its delay has passed
RateWake(a) ==
    /\ rate.inst[a].pc \in {"sleeping", "backoff"}
    /\ rate.clock >= rate.inst[a].wake
    /\ rate' = [rate EXCEPT !.inst[a].pc = "loop"]
    /\ RateUnchanged

\* self.last_gemini_call = time.time() and generate_content is called
RateCallStart(a) ==
    /\ rate.inst[a].pc = "loop"
    /\ Len(rate.calls) < MaxCalls
    /\ rate' = [rate EXCEPT !.inst[a].pc = "calling",
                            !.inst[a].last_gemini_call = rate.clock,
                            !.calls = Append(@, [at |-> rate.clock, by |-> a])]
    /\ RateUnchanged

\* the call returns a response or raises: a ClientError before the last
\* attempt is followed by asyncio.sleep(2 ** attempt), anything else ends
\* the loop
RateCallEnd(a) ==
    /\ rate.inst[a].pc = "calling"
    /\ \E o \in {"response", "ClientError", "Exception"} :
          rate' = IF o = "ClientError" /\ rate.inst[a].attempt < gemini_max_retries - 1
                  THEN [rate EXCEPT !.inst[a].pc = "backoff",
                           !.inst[a].wake = rate.clock + backoff(rate.inst[a].attempt),
                           !.inst[a].attempt = @ + 1]
                  ELSE [rate EXCEPT !.inst[a].pc = "done"]
    /\ RateUnchanged

\* a second passes
RateTick ==
    /\ rate.clock < MaxClock
    /\ rate' = [rate EXCEPT !.clock = @ + 1]
    /\ RateUnchanged

RateStep(a) ==
    \/ RateNew(a)
    \/ RateAgain(a)
    \/ RateCheck(a)
    \/ RateWake(a)
    \/ RateCallStart(a)
    \/ RateCallEnd(a)

NextRate == RateTick \/ \E a \in Analyzers : RateStep(a)

SpecRate == InitRate /\ [][NextRate]_vars

\* C13 (as claimed): any two Gemini calls of the process start at least
\* min_call_interval apart, whichever analyzer instance issues them.
C13_CallsOneIntervalApart ==
    \A i \in 1..Len(rate.calls) : \A j \in 1..Len(rate.calls) :
        i < j => rate.calls[j].at - rate.calls[i].at >= min_call_interval

---------------------------------------------------------------------------
(* NewsScraperRefactored.scrape_all_feeds *)

\* self.RSS_FEEDS.keys(), in configuration order
FeedKeys == [k \in 1..NumFeeds |-> <<"feed", k>>]

\* what fetching and parsing one feed can do: a parsed feed with 0, 1 or 2
\* extracted articles, or one of the exceptions scrape_feed distinguishes
FetchOutcomes ==
    {[kind |-> "ok", count |-> n] : n \in 0..2}
        \cup {[kind |-> e, count |-> 0] :
                e \in {"Timeout", "HTTPError", "ConnectionError", "Exception"}}

\* scrape_feed: the result dict of one feed
scrape_feed(feed_key, o) ==
    IF o.kind = "ok"
    THEN [success |-> TRUE, feed_key |-> feed_key,
          articles |-> [j \in 1..o.count |-> j], error |-> ""]
    ELSE [success |-> FALSE, feed_key |-> <<>>, articles |-> <<>>,
          error |-> IF o.kind = "Timeout" THEN "Timeout" ELSE o.kind]

\* a tally that forgets the failed feeds, for comparison
TallySuccessOnly(results, result) ==
    IF result.success
    THEN [results EXCEPT !.feeds = Append(@, result),
                         !.successful_feeds = @ + 1,
                         !.total_articles = @ + Len(result.articles)]
    ELSE [results EXCEPT !.feeds = Append(@, result)]

\* the body of the loop after scrape_feed returned
Tally(results, result) ==
    IF result.success
    THEN [results EXCEPT !.feeds = Append(@, result),
                         !.successful_feeds = @ + 1,
                         !.total_articles = @ + Len(result.articles)]
    ELSE [results EXCEPT !.feeds = Append(@, result),
                         !.failed_feeds = @ + 1]

InitFeeds ==
    /\ news = {}
    /\ nextId = 1
    /\ cache = {}
    /\ rss = [w \in RssTasks |->
                RssQueued(<<NormalizedArticle("u1", <<"A">>, <<"s">>)>>)]
    /\ cmd = CmdIdle
    /\ view = ViewIdle
    /\ dd = DdIdle
    /\ an = [pc |-> "idle"]
    /\ az = <<>>
    /\ sentiment_scores = {}
    /\ nextScoreId = 1
    /\ mentions = {}
    /\ rate = [pc |-> "idle"]
    /\ clean = [pc |-> "idle"]
    /\ call = [pc |-> "start"]

FeedsUnchanged ==
    /\ UNCHANGED <<news, nextId, cache, rss, cmd, view, dd>>
    /\ UNCHANGED <<an, az, sentiment_scores, nextScoreId, mentions, rate, clean>>

\* scrape_all_feeds is called: the results dict is built
ScrapeAllStart ==
    /\ call.pc = "start"
    /\ call' = [pc |-> IF Len(FeedKeys) = 0 THEN "returned" ELSE "loop",
                i |-> 1, fetched |-> <<>>,
                results |-> [total_feeds |-> Len(FeedKeys), successful_feeds |-> 0,
                             failed_feeds |-> 0, total_articles |-> 0,
                             feeds |-> <<>>]]
    /\ FeedsUnchanged

\* one pass of the loop: the feed is scraped, its result appended and tallied
ScrapeAllFeed ==
    /\ call.pc = "loop"
    /\ \E o \in FetchOutcomes :
          call' = [call EXCEPT
                     !.pc = IF call.i = Len(FeedKeys) THEN "returned" ELSE "loop",
                     !.i = @ + 1,
                     !.fetched = Append(@, o),
                     !.results = Tally(@, scrape_feed(FeedKeys[call.i], o))]
    /\ FeedsUnchanged

NextFeeds == ScrapeAllStart \/ ScrapeAllFeed

SpecFeeds == InitFeeds /\ [][NextFeeds]_vars

\* C14: scrape_all_feeds returns, whatever each fetch did, with one outcome
\* for each configured feed in configuration order: a success with the
\* feed's key and articles where the fetch succeeded, a failure otherwise;
\* successful_feeds + failed_feeds = total_feeds = the number of feeds, and
\* total_articles is the number of articles of the successful feeds.
C14_OneOutcomePerFeed ==
    /\ call.pc = "loop" => call.i <= Len(FeedKeys) /\ Len(call.fetched) = call.i - 1
    /\ call.pc = "returned" =>
          LET r == call.results
              ok == {k \in 1..Len(FeedKeys) : call.fetched[k].kind = "ok"}
          IN  /\ Len(call.fetched) = Len(FeedKeys)
              /\ Len(r.feeds) = Len(FeedKeys)
              /\ \A k \in 1..Len(FeedKeys) :
                    /\ r.feeds[k].success <=> k \in ok
                    /\ k \in ok => /\ r.feeds[k].feed_key = FeedKeys[k]
                                   /\ Len(r.feeds[k].articles) = call.fetched[k].count
                    /\ k \notin ok => r.feeds[k].articles = <<>>
              /\ r.total_feeds = Len(FeedKeys)
              /\ r.successful_feeds = Cardinality(ok)
              /\ r.successful_feeds + r.failed_feeds = r.total_feeds
              /\ r.total_articles = SumFn([k \in ok |-> call.fetched[k].count], ok)

\* C14 witness: the first feed times out, the second fails with an
\* unexpected exception, the third succeeds with two articles, and the run
\* returns the three outcomes with the tally 1 + 2 = 3.
C14_Witness ==
    /\ call.pc = "returned"
    /\ call.fetched[1].kind = "Timeout"
    /\ call.fetched[2].kind = "Exception"
    /\ call.fetched[3] = [kind |-> "ok", count |-> 2]
    /\ call.results.successful_feeds + call.results.failed_feeds = Len(FeedKeys)
    /\ call.results.failed_feeds >= 2
    /\ call.results.total_articles >= 2

---------------------------------------------------------------------------
(* The life of a News row: ingestion, the content views, analysis and the  *)
(* two retention cleanups                                                  *)

CleanupTasks == {"cleanup_old_articles", "cleanup_old_unanalyzed_articles"}

\* `clean` also keeps which rows have aged past a cutoff: old_date holds the
\* ids whose `date` is before now - 7 days, old_pub those whose
\* `published_at` is before now - 30 days
CleanIdle == [pc |-> "idle", task |-> None, count |-> 0, ids |-> {},
              old_date |-> {}, old_pub |-> {}]

\* parse_news stores no published_at (NULL); scrape_rss_source and
\* save_articles_to_db store it, and they are the paths storing a fingerprint
PublishedAtStored(r) == r.content_hash # NoHash

\* cleanup_old_articles: filter(published_at__lt=cutoff).filter(is_analyzed=False)
\* cleanup_old_unanalyzed_articles: filter(is_analyzed=False, date__lt=cutoff)
CleanupFilter(rows, task, c) ==
    IF task = "cleanup_old_articles"
    THEN {r \in rows : r.id \in c.old_pub /\ ~r.is_analyzed}
    ELSE {r \in rows : ~r.is_analyzed /\ r.id \in c.old_date}

\* time passes: the `date` of a row falls behind the 7 day cutoff
AgeDate ==
    /\ \E r \in news :
          /\ r.id \notin clean.old_date
          /\ clean' = [clean EXCEPT !.old_date = @ \cup {r.id}]
    /\ UNCHANGED <<news, nextId, cache, rss, cmd, view, dd>>
    /\ UNCHANGED <<an, az, sentiment_scores, nextScoreId, mentions, call, rate>>

\* the `published_at` of a row is, or falls, behind the 30 day cutoff
AgePublished ==
    /\ \E r \in news :
          /\ PublishedAtStored(r)
          /\ r.id \notin clean.old_pub
          /\ clean' = [clean EXCEPT !.old_pub = @ \cup {r.id}]
    /\ UNCHANGED <<news, nextId, cache, rss, cmd, view, dd>>
    /\ UNCHANGED <<an, az, sentiment_scores, nextScoreId, mentions, call, rate>>

\* celery beat starts one of the cleanups
CleanStart ==
    /\ clean.pc = "idle"
    /\ \E task \in CleanupTasks :
          clean' = [clean EXCEPT !.pc = "count", !.task = task,
                                 !.count = 0, !.ids = {}]
    /\ UNCHANGED <<news, nextId, cache, rss, cmd, view, dd>>
    /\ UNCHANGED <<an, az, sentiment_scores, nextScoreId, mentions, call, rate>>

\* `.count()`; cleanup_old_unanalyzed_articles returns when it is 0
CleanCount ==
    /\ clean.pc = "count"
    /\ LET n == Cardinality(CleanupFilter(news, clean.task, clean))
       IN  clean' = IF clean.task = "cleanup_old_unanalyzed_articles" /\ n = 0
                    THEN [clean EXCEPT !.pc = "idle", !.count = 0]
                    ELSE [clean EXCEPT !.pc = "collect", !.count = n]
    /\ UNCHANGED <<news, nextId, cache, rss, cmd, view, dd>>
    /\ UNCHANGED <<an, az, sentiment_scores, nextScoreId, mentions, call, rate>>

\* QuerySet.delete(), first half: News has cascading relations, so the
\* collector SELECTs the rows matching the filter
CleanCollect ==
    /\ clean.pc = "collect"
    /\ clean' = [clean EXCEPT !.pc = "delete",
                    !.ids = {r.id : r \in CleanupFilter(news, clean.task, clean)}]
    /\ UNCHANGED <<news, nextId, cache, rss, cmd, view, dd>>
    /\ UNCHANGED <<an, az, sentiment_scores, nextScoreId, mentions, call, rate>>

\* QuerySet.delete(), second half, in one transaction: the SentimentScore
\* rows and the tickers / sectors relation rows of the collected ids are
\* deleted, then the News rows with those primary keys
CleanDelete ==
    /\ clean.pc = "delete"
    /\ news' = {r \in news : r.id \notin clean.ids}
    /\ sentiment_scores' = {x \in sentiment_scores : x.news \notin clean.ids}
    /\ mentions' = {x \in mentions : x[1] \notin clean.ids}
    /\ clean' = [clean EXCEPT !.pc = "idle"]
    /\ UNCHANGED <<nextId, cache, rss, cmd, view, dd>>
    /\ UNCHANGED <<an, az, nextScoreId, call, rate>>

\* get_content / remove_content: get_object_or_404(News, id=news_id); the
\* full text is then fetched from the article's site (get_content)
ContentGet ==
    /\ call.pc = "idle"
    /\ \E r \in news, c \in {None, "text"} :
          call' = [pc |-> "loaded", news_obj |-> r, content |-> c]
    /\ UNCHANGED <<news, nextId, cache, rss, cmd, view, dd>>
    /\ UNCHANGED <<an, az, sentiment_scores, nextScoreId, mentions, rate, clean>>

\* news.content = ...; news.save(); a refused INSERT is an error response
ContentSave ==
    /\ call.pc = "loaded"
    /\ news' = IF SaveRefused(news, call.news_obj) THEN news
               ELSE Save(news, [call.news_obj EXCEPT !.content = call.content])
    /\ call' = [pc |-> "idle"]
    /\ UNCHANGED <<nextId, cache, rss, cmd, view, dd>>
    /\ UNCHANGED <<an, az, sentiment_scores, nextScoreId, mentions, rate, clean>>

InitLifecycle ==
    /\ news = {}
    /\ nextId = 1
    /\ cache = {}
    /\ rss = [w \in RssTasks |->
                RssQueued(<<NormalizedArticle("u1", <<"A">>, <<"s">>)>>)]
    /\ cmd = CmdIdle
    /\ view = ViewIdle
    /\ dd = DdIdle
    /\ an = [pc |-> "idle"]
    /\ az = [t \in AzTasks |-> AzQueued]
    /\ sentiment_scores = {}
    /\ nextScoreId = 1
    /\ mentions = {}
    /\ call = [pc |-> "idle"]
    /\ rate = [pc |-> "idle"]
    /\ clean = CleanIdle

\* one scrape_rss_source task stores the article of its feed, one
\* analyze_article_sentiment task analyses the row with id 1, the cleanups
\* run on their schedule
NextRetain ==
    \/ RssStep("rss1")
    \/ AzStep("az1")
    \/ AgeDate
    \/ AgePublished
    \/ CleanStart
    \/ CleanCount
    \/ CleanCollect
    \/ CleanDelete

SpecRetain == InitLifecycle /\ [][NextRetain]_vars

\* the same ingestion and analysis with the content views
NextLifecycle ==
    \/ RssStep("rss1")
    \/ AzStep("az1")
    \/ ContentGet
    \/ ContentSave

SpecLifecycle == InitLifecycle /\ [][NextLifecycle]_vars

\* C15: no operation deletes an Article whose analyzed flag is true: a row
\* leaves the News table only in the delete of a retention cleanup, and the
\* row it removes is past the age cutoff and has is_analyzed false at that
\* moment, in every interleaving with the analysis task
C15_OnlyStaleUnanalyzedDeleted ==
    [][\A r \in news :
          ~NewsExists(news', r.id) =>
              /\ clean.pc = "delete"
              /\ r.id \in clean.old_date \cup clean.old_pub
              /\ ~r.is_analyzed]_vars

\* C16: the analyzed flag of an Article is false when an ingestion path
\* creates the row, becomes true only in the last step of an
\* analyze_article_sentiment run, stays as it is when the run fails and is
\* retried, and once true is never set back to false by any operation
C16_AnalyzedFlagOnlyRises ==
    [][/\ \A r \in news' : ~NewsExists(news, r.id) => ~r.is_analyzed
       /\ \A r \in news : \A q \in news' :
             (r.id = q.id /\ ~r.is_analyzed /\ q.is_analyzed) =>
                 \E t \in AzTasks : /\ az[t].pc = "mark"
                                    /\ az'[t].pc = "done"
                                    /\ az[t].news_id = r.id
       /\ \A t \in AzTasks :
             (az[t].pc = "mark" /\ az'[t].pc \in {"queued", "failed"}) =>
                 news' = news
       /\ \A r \in news : \A q \in news' :
             (r.id = q.id /\ r.is_analyzed) => q.is_analyzed]_vars

---------------------------------------------------------------------------
(* The fingerprint cache losing entries while feeds are ingested *)

\* cleanup_cache: cache.clear(); an error of the cache backend is logged and
\* leaves the cache as it is
CleanupCache ==
    /\ \E cleared \in BOOLEAN : cache' = IF cleared THEN {} ELSE cache
    /\ UNCHANGED <<news, nextId, rss, cmd, view, dd>>
    /\ UNCHANGED analysis_vars

\* a key content_hash_<h> reaches its timeout (cache_timeout, 24 hours)
CacheExpire ==
    /\ \E h \in cache : cache' = cache \ {h}
    /\ UNCHANGED <<news, nextId, rss, cmd, view, dd>>
    /\ UNCHANGED analysis_vars

NextCache ==
    \/ \E w \in RssTasks : RssStep(w)
    \/ CleanupCache
    \/ CacheExpire

\* each of the two sources has a feed of one article
InitCache ==
    /\ InitIngest
    /\ \A w \in RssTasks : Len(rss[w].feed) = 1

SpecCache == InitCache /\ [][NextCache]_vars

\* C17: the cache is not what excludes a stored URL. Whatever the cache
\* holds after clears and expiries, the URL check of deduplicate_articles
\* lets an article through only when no row has its link, an article is
\* appended to the unique list only when its link is not stored, and no
\* link is ever stored in two rows
C17_StoredUrlExcludedWithoutCache ==
    /\ [](\A r1 \in news : \A r2 \in news : r1.link = r2.link => r1.id = r2.id)
    /\ [][\A w \in RssTasks :
             (rss[w].pc = "dedup_url" /\ rss'[w].pc = "dedup_hash") =>
                 RowsByLink(news, rss[w].feed[rss[w].i].link) = {}]_vars
    /\ [][\A w \in RssTasks :
             (rss[w].pc = "dedup_url" /\ rss'[w].pc # "dedup_url"
                /\ RowsByLink(news, rss[w].feed[rss[w].i].link) # {}) =>
                 rss'[w].unique_articles = rss[w].unique_articles]_vars

\* C17 witness: the article of a task's feed is stored, its fingerprint is no
\* longer in the cache, and the task has gone through the feed without
\* taking the article as unique
C17_Witness ==
    \E w \in RssTasks :
        /\ rss[w].pc = "source"
        /\ Len(rss[w].feed) = 1
        /\ RowsByLink(news, rss[w].feed[1].link) # {}
        /\ ArticleHash(rss[w].feed[1]) \notin cache
        /\ rss[w].seen_hashes = {}
        /\ rss[w].unique_articles = <<>>

---------------------------------------------------------------------------
(* Normalization of feed entries on the two RSS paths: *)
(* NewsScraperRefactored.scrape_feed with _extract_article, and *)
(* RSSFeedScraper.scrape with validate_article and normalize_article *)

MaxEntries == 2   \* entries of a parsed feed

\* the text of a raw entry field: absent or empty, blank, or a word
RawTitles == {<<>>, <<" ">>, <<"A">>}
RawLinks == {<<>>, <<"h">>}          \* "h" stands for a link starting with http
RawSummaries == {<<>>, <<"s">>}
RawDates == {None, "unparseable", "rfc2822"}

Entries ==
    [title : RawTitles, link : RawLinks, summary : RawSummaries,
     published : RawDates]

\* _parse_date: None for no string and for a string no format parses
parse_date(date_str) == IF date_str = "rfc2822" THEN "datetime" ELSE None

\* NewsScraperRefactored._extract_article: None when the entry is skipped
extract_article(entry) ==
    LET title == Strip(entry.title)
        link == Strip(entry.link)
        summary == Strip(entry.summary)
        published_at == parse_date(entry.published)
    IN  IF title = <<>> \/ link = <<>>
        THEN <<>>
        ELSE <<[title |-> title, link |-> link,
                content_summary |-> IF summary = <<>> THEN title ELSE summary,
                published_at |-> IF published_at = None THEN "now"
                                 ELSE published_at]>>

\* BaseScraper.validate_article on the raw article
validate_article(article) ==
    /\ article.title # <<>>
    /\ article.link # <<>>
    /\ article.link[1] = "h"

\* BaseScraper.normalize_article
normalize_article(article) ==
    [title |-> Strip(article.title), link |-> article.link,
     content_summary |-> Strip(article.summary),
     published_at |-> parse_date(article.published)]

\* the two paths read the same parsed feed, entry by entry: `articles` is
\* the list scrape_feed builds, `unique_articles` the values of the dict
\* RSSFeedScraper.scrape builds, keyed by link
InitNormalize ==
    /\ news = {}
    /\ nextId = 1
    /\ cache = {}
    /\ rss = [w \in RssTasks |->
                RssQueued(<<NormalizedArticle("u1", <<"A">>, <<"s">>)>>)]
    /\ cmd = CmdIdle
    /\ view = ViewIdle
    /\ dd = DdIdle
    /\ an = [pc |-> "idle"]
    /\ az = <<>>
    /\ sentiment_scores = {}
    /\ nextScoreId = 1
    /\ mentions = {}
    /\ call \in {[pc |-> "extract", feed |-> f, i |-> 1, articles |-> <<>>,
                  unique_articles |-> <<>>] :
                    f \in SeqsUpTo(Entries, MaxEntries) \ {<<>>}}
    /\ rate = [pc |-> "idle"]
    /\ clean = [pc |-> "idle"]

NormalizeUnchanged ==
    UNCHANGED <<news, nextId, cache, rss, cmd, view, dd, an, az,
                sentiment_scores, nextScoreId, mentions, rate, clean>>

\* scrape_feed: `for entry in feed.entries: article = self._extract_article(...);
\* if article: articles.append(article)`
ExtractEntry ==
    /\ call.pc = "extract"
    /\ LET last == call.i = Len(call.feed)
       IN  call' = [call EXCEPT
                      !.articles = @ \o extract_article(call.feed[call.i]),
                      !.i = IF last THEN 1 ELSE @ + 1,
                      !.pc = IF last THEN "scrape" ELSE "extract"]
    /\ NormalizeUnchanged

\* RSSFeedScraper.scrape: `if self.validate_article(article): ... if link not
\* in unique_articles: unique_articles[link] = self.normalize_article(article)`
ScrapeEntry ==
    /\ call.pc = "scrape"
    /\ LET last == call.i = Len(call.feed)
           article == call.feed[call.i]
           keep == /\ validate_article(article)
                   /\ \A k \in 1..Len(call.unique_articles) :
                         call.unique_articles[k].link # article.link
       IN  call' = [call EXCEPT
                      !.unique_articles =
                          IF keep THEN Append(@, normalize_article(article)) ELSE @,
                      !.i = IF last THEN 1 ELSE @ + 1,
                      !.pc = IF last THEN "done" ELSE "scrape"]
    /\ NormalizeUnchanged

NextNormalize == ExtractEntry \/ ScrapeEntry

SpecNormalize == InitNormalize /\ [][NextNormalize]_vars

\* an article as C18 describes it, made from the raw entry e
NormalizedAsClaimed(a, e) ==
    /\ a.title # <<>>
    /\ a.link # <<>>
    /\ Strip(e.summary) = <<>> => a.content_summary = a.title
    /\ a.published_at # None

\* C18: on both RSS paths every emitted article has a non-empty title and
\* URL, a summary equal to the title when the raw entry has no summary, and
\* a publish timestamp that is never null; an entry lacking title or URL is
\* dropped and the loop goes on to the next entry
C18_EmittedArticlesComplete ==
    [][/\ call.pc = "extract" =>
             /\ Len(call'.articles) > Len(call.articles) =>
                   NormalizedAsClaimed(call'.articles[Len(call'.articles)],
                                       call.feed[call.i])
             /\ (Strip(call.feed[call.i].title) = <<>>
                   \/ Strip(call.feed[call.i].link) = <<>>) =>
                   call'.articles = call.articles
       /\ call.pc = "scrape" =>
             /\ Len(call'.unique_articles) > Len(call.unique_articles) =>
                   NormalizedAsClaimed(
                       call'.unique_articles[Len(call'.unique_articles)],
                       call.feed[call.i])
             /\ (Strip(call.feed[call.i].title) = <<>>
                   \/ Strip(call.feed[call.i].link) = <<>>) =>
                   call'.unique_articles = call.unique_articles]_vars

---------------------------------------------------------------------------
(* The content fingerprint as a function of (title, summary) *)

MaxText == 2   \* characters of a title or of a summary

Texts == SeqsUpTo({"a", "A", "b"}, MaxText)

\* NewsScraperRefactored._generate_hash
RefactoredGenerateHash(title, content) ==
    Sha256(LowerStr(title) \o LowerStr(content))

\* two (title, summary) pairs are fingerprinted by each of the three
\* implementations
InitFingerprint ==
    /\ news = {}
    /\ nextId = 1
    /\ cache = {}
    /\ rss = [w \in RssTasks |->
                RssQueued(<<NormalizedArticle("u1", <<"A">>, <<"s">>)>>)]
    /\ cmd = CmdIdle
    /\ view = ViewIdle
    /\ dd = DdIdle
    /\ an = [pc |-> "idle"]
    /\ az = <<>>
    /\ sentiment_scores = {}
    /\ nextScoreId = 1
    /\ mentions = {}
    /\ call \in {[pc |-> "idle", title |-> t, summary |-> c, hashes |-> <<>>] :
                    t \in [1..2 -> Texts], c \in [1..2 -> Texts]}
    /\ rate = [pc |-> "idle"]
    /\ clean = [pc |-> "idle"]

FingerprintCall ==
    /\ call.pc = "idle"
    /\ call' = [call EXCEPT !.pc = "done",
                   !.hashes = [k \in 1..2 |->
                       [base |-> BaseGenerateContentHash(call.title[k], call.summary[k]),
                        deduplicator |-> generate_content_hash(call.title[k], call.summary[k]),
                        refactored |-> RefactoredGenerateHash(call.title[k], call.summary[k])]]]
    /\ UNCHANGED <<news, nextId, cache, rss, cmd, view, dd, an, az,
                   sentiment_scores, nextScoreId, mentions, rate, clean>>

NextFingerprint == FingerprintCall

SpecFingerprint == InitFingerprint /\ [][NextFingerprint]_vars

\* C19: the fingerprint is a function of (title, summary) that does not
\* change under letter-case changes and, the hash being collision free,
\* differs for any two pairs whose lowercased title or lowercased summary
\* differ, pairs that split the same text differently included
C19_FingerprintSeparatesPairs ==
    call.pc = "done" =>
        LET same == /\ LowerStr(call.title[1]) = LowerStr(call.title[2])
                    /\ LowerStr(call.summary[1]) = LowerStr(call.summary[2])
        IN  \A f \in {"base", "deduplicator", "refactored"} :
                (call.hashes[1][f] = call.hashes[2][f]) <=> same

---------------------------------------------------------------------------
(* TickerRecognizer.find_tickers_in_text on a text of a few words *)

MaxWords == 3   \* words of the text

\* the vocabulary of the texts: two ticker symbols, a company name, a
\* misspelt company name, another company name and a word matching nothing
Words == {"TCS", "INFY", "tata", "tatta", "infosys", "the"}

\* self.ticker_data, keyed by symbol
ticker_data == {"TCS", "INFY"}

\* self.company_variations in insertion order: lowercased names, names
\* without suffix and abbreviations, each with its symbol
company_variations ==
    <<[variation |-> "tcs", symbol |-> "TCS"],
      [variation |-> "tata", symbol |-> "TCS"],
      [variation |-> "infosys", symbol |-> "INFY"]>>

\* str.lower() of a word
WordLower(w) == IF w = "TCS" THEN "tcs" ELSE IF w = "INFY" THEN "infy" ELSE w

\* len() of a lowercased word or variation
WordLen(w) == IF w \in {"tcs", "the"} THEN 3
              ELSE IF w \in {"infy", "tata"} THEN 4
              ELSE IF w = "tatta" THEN 5 ELSE 7

\* re.findall(r'\b[A-Z]{2,10}\b', text): the upper-case words, in order
RECURSIVE UpperWords(_)
UpperWords(text) ==
    IF text = <<>> THEN <<>>
    ELSE IF Head(text) \in {"TCS", "INFY"}
         THEN <<Head(text)>> \o UpperWords(Tail(text))
         ELSE UpperWords(Tail(text))

\* `variation in text_lower` for the words of the vocabulary
InTextLower(variation, text) ==
    \E k \in 1..Len(text) : WordLower(text[k]) = variation

\* self._similarity(phrase, company_name) >= threshold (0.85): equal strings
\* have ratio 1, "tatta" and "tata" have ratio 8/9; no other phrase of the
\* vocabulary, of one word or several, comes that close to a variation
SimilarEnough(phrase, company_name) ==
    phrase = company_name \/ (phrase = "tatta" /\ company_name = "tata")

Symbols(found_tickers) == {found_tickers[k].symbol : k \in 1..Len(found_tickers)}

\* `for word in words: if word in self.ticker_data: found_tickers.append(...)`
RECURSIVE SymbolTier(_, _)
SymbolTier(words, found_tickers) ==
    IF words = <<>> THEN found_tickers
    ELSE SymbolTier(Tail(words),
            IF Head(words) \in ticker_data
            THEN Append(found_tickers,
                        [symbol |-> Head(words), match_type |-> "exact_symbol"])
            ELSE found_tickers)

\* `for variation, symbol in self.company_variations.items(): if variation in
\* text_lower: if symbol not in [t['symbol'] for t in found_tickers]: append`
RECURSIVE NameTier(_, _, _)
NameTier(variations, text, found_tickers) ==
    IF variations = <<>> THEN found_tickers
    ELSE LET v == Head(variations)
         IN  NameTier(Tail(variations), text,
                IF InTextLower(v.variation, text) /\ v.symbol \notin Symbols(found_tickers)
                THEN Append(found_tickers,
                            [symbol |-> v.symbol, match_type |-> "company_name"])
                ELSE found_tickers)

\* the inner loop of the fuzzy tier for one phrase
RECURSIVE FuzzyPhrase(_, _, _)
FuzzyPhrase(variations, phrase, found_tickers) ==
    IF variations = <<>> THEN found_tickers
    ELSE LET v == Head(variations)
         IN  FuzzyPhrase(Tail(variations), phrase,
                IF /\ WordLen(v.variation) >= 4
                   /\ SimilarEnough(phrase, v.variation)
                   /\ v.symbol \notin Symbols(found_tickers)
                THEN Append(found_tickers,
                            [symbol |-> v.symbol, match_type |-> "fuzzy_match"])
                ELSE found_tickers)

\* the fuzzy tier over the phrases of text_lower.split(); a phrase shorter
\* than 4 characters is skipped
RECURSIVE FuzzyTier(_, _)
FuzzyTier(text, found_tickers) ==
    IF text = <<>> THEN found_tickers
    ELSE FuzzyTier(Tail(text),
            IF WordLen(WordLower(Head(text))) < 4 THEN found_tickers
            ELSE FuzzyPhrase(company_variations, WordLower(Head(text)),
                             found_tickers))

InitTickers ==
    /\ news = {}
    /\ nextId = 1
    /\ cache = {}
    /\ rss = [w \in RssTasks |->
                RssQueued(<<NormalizedArticle("u1", <<"A">>, <<"s">>)>>)]
    /\ cmd = CmdIdle
    /\ view = ViewIdle
    /\ dd = DdIdle
    /\ an = [pc |-> "idle"]
    /\ az = <<>>
    /\ sentiment_scores = {}
    /\ nextScoreId = 1
    /\ mentions = {}
    /\ call \in {[pc |-> "symbols", text |-> t, found_tickers |-> <<>>] :
                    t \in SeqsUpTo(Words, MaxWords)}
    /\ rate = [pc |-> "idle"]
    /\ clean = [pc |-> "idle"]

TickersUnchanged ==
    UNCHANGED <<news, nextId, cache, rss, cmd, view, dd, an, az,
                sentiment_scores, nextScoreId, mentions, rate, clean>>

\* find_tickers_in_text, tier by tier
FindSymbols ==
    /\ call.pc = "symbols"
    /\ call' = [call EXCEPT !.pc = "names",
                   !.found_tickers = SymbolTier(UpperWords(call.text), @)]
    /\ TickersUnchanged

FindNames ==
    /\ call.pc = "names"
    /\ call' = [call EXCEPT !.pc = "fuzzy",
                   !.found_tickers = NameTier(company_variations, call.text, @)]
    /\ TickersUnchanged

FindFuzzy ==
    /\ call.pc = "fuzzy"
    /\ call' = [call EXCEPT !.pc = "done",
                   !.found_tickers = FuzzyTier(call.text, @)]
    /\ TickersUnchanged

NextTickers == FindSymbols \/ FindNames \/ FindFuzzy

SpecTickers == InitTickers /\ [][NextTickers]_vars

\* the earliest tier by which the text matches a symbol
EarliestTier(symbol, text) ==
    IF \E k \in 1..Len(text) : text[k] = symbol THEN "exact_symbol"
    ELSE IF \E k \in 1..Len(company_variations) :
               /\ company_variations[k].symbol = symbol
               /\ InTextLower(company_variations[k].variation, text)
         THEN "company_name"
         ELSE "fuzzy_match"

\* C20: find_tickers_in_text returns each ticker symbol at most once, also
\* when its token occurs several times in the text or several tiers match
\* it, and the entry kept carries the match type of the earliest tier
C20_EachSymbolOnce ==
    call.pc = "done" =>
        /\ \A i \in 1..Len(call.found_tickers) :
              \A j \in 1..Len(call.found_tickers) :
                 call.found_tickers[i].symbol = call.found_tickers[j].symbol => i = j
        /\ \A i \in 1..Len(call.found_tickers) :
              call.found_tickers[i].match_type =
                  EarliestTier(call.found_tickers[i].symbol, call.text)

---------------------------------------------------------------------------
(* TickerRecognizer on character strings: the ticker table, the variations *)
(* of a company name and the three tiers of find_tickers_in_text           *)

Letters ==
    <<"a", "b", "c", "d", "e", "f", "g", "h", "i", "j", "k", "l", "m",
      "n", "o", "p", "q", "r", "s", "t", "u", "v", "w", "x", "y", "z">>

Capitals ==
    <<"A", "B", "C", "D", "E", "F", "G", "H", "I", "J", "K", "L", "M",
      "N", "O", "P", "Q", "R", "S", "T", "U", "V", "W", "X", "Y", "Z">>

Digits == {"0", "1", "2", "3", "4", "5", "6", "7", "8", "9"}

IsCapital(c) == \E k \in 1..26 : Capitals[k] = c

\* a character of the regex class \w
IsWordChar(c) == IsCapital(c) \/ (\E k \in 1..26 : Letters[k] = c) \/ c \in Digits

\* str.lower()
CharLower(c) ==
    IF IsCapital(c) THEN Letters[CHOOSE k \in 1..26 : Capitals[k] = c] ELSE c

StrLower(s) == [k \in 1..Len(s) |-> CharLower(s[k])]

\* the maximal runs of a text's characters that satisfy Keep, in the order
\* of the text
Runs(s, Keep(_)) ==
    LET starts == {i \in 1..Len(s) : Keep(s[i]) /\ (i = 1 \/ ~Keep(s[i - 1]))}
        EndOf(i) == CHOOSE j \in i..Len(s) :
                        /\ \A k \in i..j : Keep(s[k])
                        /\ (j = Len(s) \/ ~Keep(s[j + 1]))
        Nth(n) == CHOOSE i \in starts : Cardinality({j \in starts : j < i}) = n - 1
    IN  [n \in 1..Cardinality(starts) |-> SubSeq(s, Nth(n), EndOf(Nth(n)))]

NotBlank(c) == c # " "

\* str.split(): the maximal runs of characters other than whitespace
Split(s) == Runs(s, NotBlank)

\* ' '.join(words)
RECURSIVE Join(_)
Join(words) ==
    IF words = <<>> THEN <<>>
    ELSE IF Len(words) = 1 THEN words[1]
    ELSE words[1] \o <<" ">> \o Join(Tail(words))

\* `sub in s`
Contains(s, sub) ==
    \E k \in 0..(Len(s) - Len(sub)) : SubSeq(s, k + 1, k + Len(sub)) = sub

\* re.findall(r'\b[A-Z]{2,10}\b', text): the runs of \w characters that are
\* 2 to 10 capitals and nothing else
UpperCaseWords(text) ==
    SelectSeq(Runs(text, IsWordChar),
              LAMBDA w : /\ Len(w) >= 2
                         /\ Len(w) <= 10
                         /\ \A k \in 1..Len(w) : IsCapital(w[k]))

\* the strings of the model, character by character
Str_ltd ==   \* "ltd"
    <<"l", "t", "d">>

Str_limited ==   \* "limited"
    <<"l", "i", "m", "i", "t", "e", "d">>

Str_pvt ==   \* "pvt"
    <<"p", "v", "t">>

Str_private ==   \* "private"
    <<"p", "r", "i", "v", "a", "t", "e">>

Str_corporation ==   \* "corporation"
    <<"c", "o", "r", "p", "o", "r", "a", "t", "i", "o", "n">>

Str_corp ==   \* "corp"
    <<"c", "o", "r", "p">>

Str_inc ==   \* "inc"
    <<"i", "n", "c">>

Str_company ==   \* "company"
    <<"c", "o", "m", "p", "a", "n", "y">>

Str_RELIANCE ==   \* "RELIANCE"
    <<"R", "E", "L", "I", "A", "N", "C", "E">>

Str_RelianceIndustriesLtd ==   \* "Reliance Industries Ltd"
    <<"R", "e", "l", "i", "a", "n", "c", "e", " ", "I", "n", "d", "u",
      "s", "t", "r", "i", "e", "s", " ", "L", "t", "d">>

Str_RelianceLtd ==   \* "Reliance Ltd"
    <<"R", "e", "l", "i", "a", "n", "c", "e", " ", "L", "t", "d">>

Str_Reliance ==   \* "Reliance"
    <<"R", "e", "l", "i", "a", "n", "c", "e">>

Str_RelianceQ3Results ==   \* "Reliance Q3 Results"
    <<"R", "e", "l", "i", "a", "n", "c", "e", " ", "Q", "3", " ", "R",
      "e", "s", "u", "l", "t", "s">>

Str_RELIANCEQ3Results ==   \* "RELIANCE Q3 Results"
    <<"R", "E", "L", "I", "A", "N", "C", "E", " ", "Q", "3", " ", "R",
      "e", "s", "u", "l", "t", "s">>

Str_RelianceIndustriesQ3 ==   \* "Reliance Industries Q3"
    <<"R", "e", "l", "i", "a", "n", "c", "e", " ", "I", "n", "d", "u",
      "s", "t", "r", "i", "e", "s", " ", "Q", "3">>

Str_Q3Results ==   \* "Q3 Results"
    <<"Q", "3", " ", "R", "e", "s", "u", "l", "t", "s">>

Str_RelianceReportsStrongEarnings ==   \* "Reliance reports strong earnings"
    <<"R", "e", "l", "i", "a", "n", "c", "e", " ", "r", "e", "p", "o",
      "r", "t", "s", " ", "s", "t", "r", "o", "n", "g", " ", "e", "a",
      "r", "n", "i", "n", "g", "s">>

Str_RelianseIndustriesGains ==   \* "Relianse Industries gains"
    <<"R", "e", "l", "i", "a", "n", "s", "e", " ", "I", "n", "d", "u",
      "s", "t", "r", "i", "e", "s", " ", "g", "a", "i", "n", "s">>

\* the suffixes of the re.sub in _add_company_variations
NameSuffixes ==
    {Str_ltd, Str_limited, Str_pvt, Str_private, Str_corporation, Str_corp,
     Str_inc, Str_company}

\* re.sub(r'\s+(ltd|limited|...)\s*$', '', company_name, flags=re.IGNORECASE)
\* .strip(), on a name whose words are separated by single blanks
NameClean(company_name) ==
    LET words == Split(company_name)
    IN  IF Len(words) > 1 /\ StrLower(words[Len(words)]) \in NameSuffixes
        THEN Join(SubSeq(words, 1, Len(words) - 1))
        ELSE company_name

\* self.company_variations[key] = symbol on a dict kept in insertion order
DictSet(variations, key, symbol) ==
    IF \E k \in 1..Len(variations) : variations[k].variation = key
    THEN [k \in 1..Len(variations) |->
            IF variations[k].variation = key
            THEN [variations[k] EXCEPT !.symbol = symbol] ELSE variations[k]]
    ELSE Append(variations, [variation |-> key, symbol |-> symbol])

\* variations made of the full name only, for comparison
FullNameOnly(symbol, company_name, variations) ==
    DictSet(variations, StrLower(company_name), symbol)

\* TickerRecognizer._add_company_variations: the lowercased name, the name
\* without its suffix, and the initials of the words of that name
add_company_variations(symbol, company_name, variations) ==
    LET name_clean == NameClean(company_name)
        words == Split(name_clean)
        v1 == DictSet(variations, StrLower(company_name), symbol)
        v2 == IF StrLower(name_clean) # StrLower(company_name)
              THEN DictSet(v1, StrLower(name_clean), symbol) ELSE v1
    IN  IF Len(words) > 1
        THEN DictSet(v2, [k \in 1..Len(words) |-> CharLower(words[k][1])], symbol)
        ELSE v2

SetMax(S) == CHOOSE x \in S : \A y \in S : y <= x

SetMin(S) == CHOOSE x \in S : \A y \in S : x <= y

\* the length of the common run of a from i and b from j, inside the ranges
MatchLen(a, b, i, j, ahi, bhi) ==
    LET room == SetMin({ahi - i + 1, bhi - j + 1})
    IN  SetMax({k \in 0..room : \A m \in 0..(k - 1) : a[i + m] = b[j + m]})

\* SequenceMatcher.find_longest_match: the longest common block of
\* a[alo..ahi] and b[blo..bhi], the one starting earliest in a and, among
\* those, earliest in b (no junk: the strings are shorter than 200)
find_longest_match(a, b, alo, ahi, blo, bhi) ==
    LET k == SetMax({MatchLen(a, b, i, j, ahi, bhi) : i \in alo..ahi, j \in blo..bhi})
        i0 == SetMin({i \in alo..ahi :
                        \E j \in blo..bhi : MatchLen(a, b, i, j, ahi, bhi) = k})
        j0 == SetMin({j \in blo..bhi : MatchLen(a, b, i0, j, ahi, bhi) = k})
    IN  [i |-> i0, j |-> j0, size |-> k]

\* the sum of the sizes of SequenceMatcher.get_matching_blocks: the longest
\* block, then the same to its left and to its right
RECURSIVE MatchingSize(_, _, _, _, _, _)
MatchingSize(a, b, alo, ahi, blo, bhi) ==
    IF alo > ahi \/ blo > bhi THEN 0
    ELSE LET m == find_longest_match(a, b, alo, ahi, blo, bhi)
         IN  IF m.size = 0 THEN 0
             ELSE m.size
                  + MatchingSize(a, b, alo, m.i - 1, blo, m.j - 1)
                  + MatchingSize(a, b, m.i + m.size, ahi, m.j + m.size, bhi)

\* find_tickers_in_text(text, threshold=0.85)
threshold == [num |-> 17, den |-> 20]

\* _similarity(a, b) >= threshold, with SequenceMatcher.ratio() = 2*M/T
SimilarityAtLeast(a, b, t) ==
    LET total == Len(a) + Len(b)
    IN  IF total = 0 THEN TRUE
        ELSE 2 * MatchingSize(a, b, 1, Len(a), 1, Len(b)) * t.den >= t.num * total

FoundSymbols(found_tickers) ==
    {found_tickers[k].symbol : k \in 1..Len(found_tickers)}

\* the direct symbol tier
RECURSIVE ExactSymbolTier(_, _, _)
ExactSymbolTier(words, symbols, found_tickers) ==
    IF words = <<>> THEN found_tickers
    ELSE ExactSymbolTier(Tail(words), symbols,
            IF Head(words) \in symbols
            THEN Append(found_tickers,
                        [symbol |-> Head(words), match_type |-> "exact_symbol"])
            ELSE found_tickers)

\* the company name tier: `if variation in text_lower`
RECURSIVE CompanyNameTier(_, _, _)
CompanyNameTier(variations, text_lower, found_tickers) ==
    IF variations = <<>> THEN found_tickers
    ELSE LET v == Head(variations)
         IN  CompanyNameTier(Tail(variations), text_lower,
                IF Contains(text_lower, v.variation)
                   /\ v.symbol \notin FoundSymbols(found_tickers)
                THEN Append(found_tickers,
                            [symbol |-> v.symbol, match_type |-> "company_name"])
                ELSE found_tickers)

\* the fuzzy tier: `for i in range(len(text_words)): for j in range(i + 1,
\* min(i + 5, len(text_words) + 1))` takes the phrases of 1 to 4 words from
\* word i on, and `for company_name, symbol in ...items()` the variations;
\* phrases and variations of fewer than 4 characters are skipped. The
\* triples <<i, n, v>> of a word, a phrase length and a variation whose
\* similarity reaches the threshold:
FuzzyMatches(text_words, variations) ==
    {t \in (1..Len(text_words)) \X (1..4) \X (1..Len(variations)) :
        /\ t[1] + t[2] - 1 <= Len(text_words)
        /\ LET phrase == Join(SubSeq(text_words, t[1], t[1] + t[2] - 1))
           IN  /\ Len(phrase) >= 4
               /\ Len(variations[t[3]].variation) >= 4
               /\ SimilarityAtLeast(phrase, variations[t[3]].variation, threshold)}

\* the place of a triple in the order of the three nested loops
LoopRank(t, variations) == (t[1] * 5 + t[2]) * (Len(variations) + 1) + t[3]

\* a symbol is appended at the first triple that matches one of its
\* variations, unless found_tickers holds it already
FuzzyMatchTier(text_words, variations, found_tickers) ==
    LET matches == FuzzyMatches(text_words, variations)
        fresh == {variations[t[3]].symbol : t \in matches}
                     \ FoundSymbols(found_tickers)
        First(y) == SetMin({LoopRank(t, variations) :
                              t \in {u \in matches : variations[u[3]].symbol = y}})
        Nth(n) == CHOOSE y \in fresh :
                      Cardinality({z \in fresh : First(z) < First(y)}) = n - 1
    IN  found_tickers \o
            [n \in 1..Cardinality(fresh) |->
                [symbol |-> Nth(n), match_type |-> "fuzzy_match"]]

\* the rows of the ticker CSV: one known ticker under several company names
TickerRows ==
    {[symbol |-> Str_RELIANCE, name |-> n] :
        n \in {Str_RelianceIndustriesLtd, Str_RelianceLtd, Str_Reliance}}

ArticleTitles ==
    {Str_RelianceQ3Results, Str_RELIANCEQ3Results, Str_RelianceIndustriesQ3,
     Str_Q3Results}

ArticleSummaries ==
    {Str_RelianceReportsStrongEarnings, Str_RelianseIndustriesGains, <<>>}

\* analyze_article_sentiment: full_text = f"{news.title}
\* {news.content_summary} {news.content or ''}" with no content fetched
FullText(title, content_summary) == title \o <<" ">> \o content_summary \o <<" ">>

InitRecognize ==
    /\ news = {}
    /\ nextId = 1
    /\ cache = {}
    /\ rss = [w \in RssTasks |->
                RssQueued(<<NormalizedArticle("u1", <<"A">>, <<"s">>)>>)]
    /\ cmd = CmdIdle
    /\ view = ViewIdle
    /\ dd = DdIdle
    /\ an = [pc |-> "idle"]
    /\ az = <<>>
    /\ sentiment_scores = {}
    /\ nextScoreId = 1
    /\ mentions = {}
    /\ call \in {[pc |-> "load", row |-> r, title |-> t, content_summary |-> c,
                  symbols |-> {}, variations |-> <<>>, found_tickers |-> <<>>] :
                    r \in TickerRows, t \in ArticleTitles, c \in ArticleSummaries}
    /\ rate = [pc |-> "idle"]
    /\ clean = [pc |-> "idle"]

RecognizeUnchanged ==
    UNCHANGED <<news, nextId, cache, rss, cmd, view, dd, an, az,
                sentiment_scores, nextScoreId, mentions, rate, clean>>

\* TickerRecognizer(): _load_ticker_data reads the rows of the CSV
LoadTickerData ==
    /\ call.pc = "load"
    /\ call' = [call EXCEPT
                  !.pc = "symbols",
                  !.symbols = {call.row.symbol},
                  !.variations = add_company_variations(call.row.symbol,
                                                        call.row.name, <<>>)]
    /\ RecognizeUnchanged

\* find_tickers_in_text(full_text), tier by tier
MatchSymbols ==
    /\ call.pc = "symbols"
    /\ call' = [call EXCEPT
                  !.pc = "names",
                  !.found_tickers =
                      ExactSymbolTier(
                          UpperCaseWords(FullText(call.title, call.content_summary)),
                          call.symbols, <<>>)]
    /\ RecognizeUnchanged

MatchNames ==
    /\ call.pc = "names"
    /\ call' = [call EXCEPT
                  !.pc = "fuzzy",
                  !.found_tickers =
                      CompanyNameTier(call.variations,
                          StrLower(FullText(call.title, call.content_summary)), @)]
    /\ RecognizeUnchanged

MatchFuzzy ==
    /\ call.pc = "fuzzy"
    /\ call' = [call EXCEPT
                  !.pc = "done",
                  !.found_tickers =
                      FuzzyMatchTier(
                          Split(StrLower(FullText(call.title, call.content_summary))),
                          call.variations, @)]
    /\ RecognizeUnchanged

NextRecognize == LoadTickerData \/ MatchSymbols \/ MatchNames \/ MatchFuzzy

SpecRecognize == InitRecognize /\ [][NextRecognize]_vars

\* C21: with the ticker RELIANCE of company name "Reliance Industries Ltd",
\* the recognition on the article titled "Reliance Q3 Results" with summary
\* "Reliance reports strong earnings" returns an entry for RELIANCE whose
\* match type is the company name tier
C21_RelianceMatchedByCompanyName ==
    (/\ call.pc = "done"
     /\ call.row.name = Str_RelianceIndustriesLtd
     /\ call.title = Str_RelianceQ3Results
     /\ call.content_summary = Str_RelianceReportsStrongEarnings) =>
        \E k \in 1..Len(call.found_tickers) :
            /\ call.found_tickers[k].symbol = Str_RELIANCE
            /\ call.found_tickers[k].match_type = "company_name"

---------------------------------------------------------------------------
(* aggregate_ticker_sentiment and the API view ticker_sentiment that calls *)
(* it: the lookback window, the decaying weights, the cached summary       *)

\* aggregate_ticker_sentiment(ticker_symbol, hours=24)
hours == 24

MaxScores == 3

\* the numbers p + q * sqrt(2) with integers p and q, written <<p, q>>: the
\* weights of records whose age is a multiple of hours / 4 are of this form
R2Add(x, y) == <<x[1] + y[1], x[2] + y[2]>>

R2Sub(x, y) == <<x[1] - y[1], x[2] - y[2]>>

R2Scale(n, x) == <<n * x[1], n * x[2]>>

R2Sign(x) ==
    LET p == x[1]
        q == x[2]
        d == p * p - 2 * q * q
    IN  IF p = 0 /\ q = 0 THEN 0
        ELSE IF p >= 0 /\ q >= 0 THEN 1
        ELSE IF p <= 0 /\ q <= 0 THEN -1
        ELSE IF p > 0 THEN (IF d > 0 THEN 1 ELSE -1)
        ELSE (IF d < 0 THEN 1 ELSE -1)

R2Less(x, y) == R2Sign(R2Sub(y, x)) = 1

R2Leq(x, y) == R2Sign(R2Sub(y, x)) >= 0

RECURSIVE R2Sum(_)
R2Sum(s) == IF s = <<>> THEN <<0, 0>> ELSE R2Add(Head(s), R2Sum(Tail(s)))

\* every record weighing the same, for comparison
EqualWeight(age_hours, h) == <<4, 0>>

\* weight = 2 ** (-age_hours / (hours / 2)), times 4, for a record in the
\* window whose age is a multiple of hours / 4: sqrt(2) to the power
\* 4 - age_hours / (hours / 4)
weight(age_hours, h) ==
    LET e == 4 - (4 * age_hours) \div h
    IN  IF e % 2 = 0 THEN <<2 ^ (e \div 2), 0>> ELSE <<0, 2 ^ ((e - 1) \div 2)>>

\* the Stock rows
AggStocks == {"RELIANCE", "TCS"}

\* now - created_at of the stored records, in hours
Ages == {k * (hours \div 4) : k \in 0..5}

ScoreCandidates ==
    {[ticker |-> "RELIANCE", sentiment_score |-> s, age |-> a] :
        s \in {-8, 3, 8}, a \in Ages}
    \cup {[ticker |-> "TCS", sentiment_score |-> 8, age |-> 0]}

\* SentimentScore.objects.filter(ticker=stock, created_at__gte=cutoff_time)
WindowScores(rows, symbol, h) == {r \in rows : r.ticker = symbol /\ r.age <= h}

RECURSIVE SumScores(_)
SumScores(rows) ==
    IF rows = {} THEN 0
    ELSE LET r == CHOOSE x \in rows : TRUE
         IN  r.sentiment_score + SumScores(rows \ {r})

\* the loop visits the records of the queryset one by one
NextScoreRow(rows) ==
    CHOOSE r \in rows : \A x \in rows :
        \/ r.age < x.age
        \/ r.age = x.age /\ r.sentiment_score <= x.sentiment_score

CacheKey(symbol, h) == <<"ticker_sentiment", symbol, h>>

CacheGet(c, key) ==
    IF \E e \in c : e.key = key THEN Some((CHOOSE e \in c : e.key = key).data)
    ELSE Absent

CacheSet(c, key, data) ==
    {e \in c : e.key # key} \cup {[key |-> key, data |-> data]}

SummaryFields ==
    {"ticker", "average_sentiment", "weighted_sentiment", "article_count",
     "time_window_hours", "timestamp"}

NoResponse == [status |-> 0]

\* Response({'message': 'Sentiment calculation in progress', 'task_id': ..},
\*          status=HTTP_202_ACCEPTED)
InProgress(task_id) ==
    [status |-> 202, message |-> "Sentiment calculation in progress",
     task_id |-> task_id]

\* TickerSentimentSerializer(d).data: the six declared fields of d, all of
\* them required; a missing key raises
Serializable(d) == SummaryFields \subseteq DOMAIN d

Serialized(d) == [status |-> 200, data |-> [f \in SummaryFields |-> d[f]]]

\* the part of ticker_sentiment after task.get returned: a result of
\* status 'success' is serialized without its status; otherwise, and when
\* serializing raises inside the try, the 202 response
ResponseFor(result, task_id) ==
    IF result.status = "success"
    THEN LET d == [f \in DOMAIN result \ {"status"} |-> result[f]]
         IN  IF Serializable(d) THEN Serialized(d) ELSE InProgress(task_id)
    ELSE InProgress(task_id)

RequestNumbers == 1..2

AggIdle(symbol) ==
    [pc |-> "idle", symbol |-> symbol, requests |-> 0, timed_out |-> FALSE,
     todo |-> {}, weights |-> <<>>, weighted_scores |-> <<>>,
     total_weight |-> <<0, 0>>, stats |-> [avg_sentiment |-> Absent, count |-> 0],
     result |-> [status |-> "none"], response |-> NoResponse]

InitAggregate ==
    /\ news = {}
    /\ nextId = 1
    /\ cache = {}
    /\ rss = [w \in RssTasks |->
                RssQueued(<<NormalizedArticle("u1", <<"A">>, <<"s">>)>>)]
    /\ cmd = CmdIdle
    /\ view = ViewIdle
    /\ dd = DdIdle
    /\ an = [pc |-> "idle"]
    /\ az = <<>>
    /\ sentiment_scores \in {Range(s) : s \in SeqsUpTo(ScoreCandidates, MaxScores)}
    /\ nextScoreId = 1
    /\ mentions = {}
    /\ call \in {AggIdle(y) : y \in {"RELIANCE", "ZZZ"}}
    /\ rate = [pc |-> "idle"]
    /\ clean = [pc |-> "idle"]

AggregateUnchanged ==
    UNCHANGED <<news, nextId, rss, cmd, view, dd, an, az, sentiment_scores,
                nextScoreId, mentions, rate, clean>>

\* ticker_sentiment: the summary is in the cache
ViewCacheHit ==
    /\ call.pc = "idle"
    /\ call.requests + 1 \in RequestNumbers
    /\ CacheGet(cache, CacheKey(call.symbol, hours)) # Absent
    /\ call' = [call EXCEPT
                  !.requests = @ + 1,
                  !.timed_out = FALSE,
                  !.response =
                      Serialized(CacheGet(cache, CacheKey(call.symbol, hours))[1])]
    /\ UNCHANGED cache
    /\ AggregateUnchanged

\* ticker_sentiment: nothing cached, aggregate_ticker_sentiment.delay
ViewDelay ==
    /\ call.pc = "idle"
    /\ call.requests + 1 \in RequestNumbers
    /\ CacheGet(cache, CacheKey(call.symbol, hours)) = Absent
    /\ call' = [AggIdle(call.symbol) EXCEPT
                  !.pc = "queued",
                  !.requests = call.requests + 1]
    /\ UNCHANGED cache
    /\ AggregateUnchanged

\* task.get(timeout=5) gives up while the task is queued or running
ViewTimeout ==
    /\ call.pc \in {"queued", "weigh"}
    /\ call.response = NoResponse
    /\ call' = [call EXCEPT !.timed_out = TRUE,
                            !.response = InProgress(call.requests)]
    /\ UNCHANGED cache
    /\ AggregateUnchanged

\* aggregate_ticker_sentiment: no Stock row of that symbol
AggNoStock ==
    /\ call.pc = "queued"
    /\ call.symbol \notin AggStocks
    /\ call' = [call EXCEPT
                  !.pc = "returned",
                  !.result = [status |-> "error", message |-> "Stock not found"]]
    /\ UNCHANGED cache
    /\ AggregateUnchanged

\* aggregate_ticker_sentiment: `if not scores.exists()`
AggNoData ==
    /\ call.pc = "queued"
    /\ call.symbol \in AggStocks
    /\ WindowScores(sentiment_scores, call.symbol, hours) = {}
    /\ call' = [call EXCEPT
                  !.pc = "returned",
                  !.result = [status |-> "success",
                              message |-> "No sentiment data",
                              ticker |-> call.symbol]]
    /\ UNCHANGED cache
    /\ AggregateUnchanged

\* scores.aggregate(avg_sentiment=Avg('sentiment_score'), count=Count('id'))
AggStats ==
    /\ call.pc = "queued"
    /\ call.symbol \in AggStocks
    /\ LET scores == WindowScores(sentiment_scores, call.symbol, hours)
       IN  /\ scores # {}
           /\ call' = [call EXCEPT
                         !.pc = "weigh",
                         !.todo = scores,
                         !.stats = [avg_sentiment |->
                                        [num |-> SumScores(scores),
                                         den |-> Cardinality(scores)],
                                    count |-> Cardinality(scores)]]
    /\ UNCHANGED cache
    /\ AggregateUnchanged

\* one pass of `for score in scores`
AggWeigh ==
    /\ call.pc = "weigh"
    /\ call.todo # {}
    /\ LET score == NextScoreRow(call.todo)
           w == weight(score.age, hours)
       IN  call' = [call EXCEPT
                      !.todo = @ \ {score},
                      !.weights = Append(@, [score |-> score, weight |-> w]),
                      !.weighted_scores =
                          Append(@, R2Scale(score.sentiment_score, w)),
                      !.total_weight = R2Add(@, w)]
    /\ UNCHANGED cache
    /\ AggregateUnchanged

\* weighted_avg, cache.set(cache_key, cache_data, 300) and the return
AggCache ==
    /\ call.pc = "weigh"
    /\ call.todo = {}
    /\ LET weighted_avg ==
               IF R2Sign(call.total_weight) = 1
               THEN [num |-> R2Sum(call.weighted_scores),
                     den |-> call.total_weight]
               ELSE [num |-> <<0, 0>>, den |-> <<1, 0>>]
           cache_data ==
               [ticker |-> call.symbol,
                average_sentiment |-> call.stats.avg_sentiment,
                weighted_sentiment |-> weighted_avg,
                article_count |-> call.stats.count,
                time_window_hours |-> hours,
                timestamp |-> "now"]
       IN  /\ cache' = CacheSet(cache, CacheKey(call.symbol, hours), cache_data)
           /\ call' = [call EXCEPT
                         !.pc = "returned",
                         !.result =
                             [f \in SummaryFields \cup {"status"} |->
                                 IF f = "status" THEN "success" ELSE cache_data[f]]]
    /\ AggregateUnchanged

\* task.get returns the result of the task, or the view has answered already
ViewResult ==
    /\ call.pc = "returned"
    /\ call' = [call EXCEPT
                  !.pc = "idle",
                  !.response = IF call.timed_out THEN @
                               ELSE ResponseFor(call.result, call.requests)]
    /\ UNCHANGED cache
    /\ AggregateUnchanged

NextAggregate ==
    \/ ViewCacheHit
    \/ ViewDelay
    \/ ViewTimeout
    \/ AggNoStock
    \/ AggNoData
    \/ AggStats
    \/ AggWeigh
    \/ AggCache
    \/ ViewResult

SpecAggregate == InitAggregate /\ [][NextAggregate]_vars

\* the aggregation has weighed every record of the window and returned
Aggregated ==
    /\ call.pc = "returned"
    /\ "weighted_sentiment" \in DOMAIN call.result

MinScore(rows) ==
    CHOOSE s \in {r.sentiment_score : r \in rows} :
        \A r \in rows : s <= r.sentiment_score

MaxScore(rows) ==
    CHOOSE s \in {r.sentiment_score : r \in rows} :
        \A r \in rows : s >= r.sentiment_score

\* two records of the window with scores +s and -s, s > 0, of different age
OppositePair(rows) ==
    /\ Cardinality(rows) = 2
    /\ \E r1, r2 \in rows :
          /\ r1.age # r2.age
          /\ r1.sentiment_score > 0
          /\ r2.sentiment_score = -r1.sentiment_score

MoreRecent(rows) == CHOOSE r \in rows : \A x \in rows : r.age <= x.age

\* C22: every weight is positive and a younger record weighs strictly more
\* than an older one; for two records +s and -s of different age the plain
\* average is 0 and the weighted average has the sign of the more recent
\* record; the weighted average of any records of the window lies between
\* their minimum and maximum score
C22_WeightsDecayWithAge ==
    Aggregated =>
        LET rows == WindowScores(sentiment_scores, call.symbol, hours)
            avg == call.result.weighted_sentiment
        IN  /\ \A k \in 1..Len(call.weights) :
                  R2Sign(call.weights[k].weight) = 1
            /\ \A k, l \in 1..Len(call.weights) :
                  call.weights[k].score.age < call.weights[l].score.age =>
                      R2Less(call.weights[l].weight, call.weights[k].weight)
            /\ OppositePair(rows) =>
                  /\ call.result.average_sentiment.num = 0
                  /\ R2Sign(avg.num) # 0
                  /\ (R2Sign(avg.num) = 1)
                        = (MoreRecent(rows).sentiment_score > 0)
            /\ R2Sign(avg.den) = 1
            /\ R2Leq(R2Scale(MinScore(rows), avg.den), avg.num)
            /\ R2Leq(avg.num, R2Scale(MaxScore(rows), avg.den))

\* the more recent record of an opposite pair is the negative one, one of
\* the two weights is irrational, and a third record is not of the window
C22_Witness ==
    /\ Aggregated
    /\ LET rows == WindowScores(sentiment_scores, call.symbol, hours)
       IN  /\ OppositePair(rows)
           /\ MoreRecent(rows).sentiment_score < 0
           /\ \E r \in rows : r.age % (hours \div 2) # 0
    /\ Cardinality(sentiment_scores) = MaxScores

\* the request is for a symbol without a Stock row, or for a stock without
\* a record in the window
NoDataCase ==
    \/ call.symbol \notin AggStocks
    \/ WindowScores(sentiment_scores, call.symbol, hours) = {}

\* the response says that there is no data: it carries the outcome of the
\* aggregation
ReportsNoData(response) ==
    /\ "message" \in DOMAIN response
    /\ response.message \in {"No sentiment data", "Stock not found"}

\* C23: when the ticker is unknown or has no record in the window, the
\* aggregation returns an outcome without average, weighted average or
\* count, writes nothing to the cache under the key of that ticker and
\* window, and the view answers that no data is available
C23_NoDataIsReported ==
    NoDataCase =>
        /\ call.pc = "returned" =>
              /\ "message" \in DOMAIN call.result
              /\ DOMAIN call.result \cap {"average_sentiment",
                     "weighted_sentiment", "article_count"} = {}
        /\ CacheGet(cache, CacheKey(call.symbol, hours)) = Absent
        /\ (call.response # NoResponse /\ ~call.timed_out) =>
              ReportsNoData(call.response)

---------------------------------------------------------------------------
(* SectorSentimentAnalyzer.get_sector_rotation_signals: the two halves of  *)
(* the window, the change of the average, the sorted signals               *)

\* the keys of sector_keywords, in the order of the dict (three of the ten)
SectorKeys == <<"banking", "it", "pharma">>

MaxSectorScores == 2

\* `if abs(change) > 0.2`, in hundredths
rotation_threshold == 20

Abs(n) == IF n < 0 THEN -n ELSE n

\* the SentimentScore rows a sector can have: score in hundredths, age in
\* hours
SectorCandidates(sector) ==
    IF sector = "it"
    THEN {[sector |-> sector, sentiment_score |-> s, age |-> a] :
            s \in {10, 30, 40}, a \in Ages}
    ELSE {[sector |-> sector, sentiment_score |-> s, age |-> a] :
            s \in {50, 45, 25}, a \in {6, 18}}

\* up to MaxSectorScores rows of a sector
SectorScoreSets(sector) ==
    {Range(s) : s \in SeqsUpTo(SectorCandidates(sector), MaxSectorScores)}

\* a first half closed at the midpoint, for comparison
FirstHalfClosed(rows, sector, h) ==
    {r \in rows : r.sector = sector /\ 2 * r.age <= 2 * h /\ 2 * r.age >= h}

\* filter(sector=sector, created_at__gte=cutoff_time,
\*        created_at__lt=midpoint_time) with cutoff_time = now - hours and
\* midpoint_time = now - hours / 2
FirstHalf(rows, sector, h) ==
    {r \in rows : r.sector = sector /\ 2 * r.age <= 2 * h /\ 2 * r.age > h}

\* filter(sector=sector, created_at__gte=midpoint_time)
SecondHalf(rows, sector, h) ==
    {r \in rows : r.sector = sector /\ 2 * r.age <= h}

\* aggregate(avg=Avg('sentiment_score')): None over no rows
AvgScore(rows) ==
    IF rows = {} THEN Absent
    ELSE Some([num |-> SumScores(rows), den |-> Cardinality(rows)])

\* second_half['avg'] - first_half['avg']
Change(first, second) ==
    [num |-> second.num * first.den - first.num * second.den,
     den |-> first.den * second.den]

\* a threshold that a change of exactly 0.2 passes, for comparison
SignificantInclusive(change) == Abs(change.num) >= rotation_threshold * change.den

\* abs(change) > 0.2
Significant(change) == Abs(change.num) > rotation_threshold * change.den

\* abs(x['sentiment_change']) >= abs(y['sentiment_change'])
AbsChangeGeq(x, y) ==
    Abs(x.sentiment_change.num) * y.sentiment_change.den
        >= Abs(y.sentiment_change.num) * x.sentiment_change.den

\* rotation_signals.sort(key=lambda x: abs(x['sentiment_change']),
\* reverse=True): a stable sort, built by inserting the signals one by one
\* behind those whose absolute change is not smaller
RECURSIVE SortedInsert(_, _)
SortedInsert(sorted, x) ==
    IF sorted = <<>> THEN <<x>>
    ELSE IF AbsChangeGeq(Head(sorted), x)
         THEN <<Head(sorted)>> \o SortedInsert(Tail(sorted), x)
         ELSE <<x>> \o sorted

RECURSIVE SortByAbsChange(_, _)
SortByAbsChange(signals, sorted) ==
    IF signals = <<>> THEN sorted
    ELSE SortByAbsChange(Tail(signals), SortedInsert(sorted, Head(signals)))

InitRotation ==
    /\ news = {}
    /\ nextId = 1
    /\ cache = {}
    /\ rss = [w \in RssTasks |->
                RssQueued(<<NormalizedArticle("u1", <<"A">>, <<"s">>)>>)]
    /\ cmd = CmdIdle
    /\ view = ViewIdle
    /\ dd = DdIdle
    /\ an = [pc |-> "idle"]
    /\ az = <<>>
    /\ sentiment_scores \in
          {s \cup t : s \in SectorScoreSets("it"), t \in SectorScoreSets("banking")}
    /\ nextScoreId = 1
    /\ mentions = {}
    /\ call \in {[pc |-> "start", sector_rows |-> S, i |-> 1, halves |-> <<>>,
                  rotation_signals |-> <<>>, result |-> <<>>] :
                    S \in {{"banking", "it"}, {"banking", "it", "pharma"}}}
    /\ rate = [pc |-> "idle"]
    /\ clean = [pc |-> "idle"]

RotationUnchanged ==
    UNCHANGED <<news, nextId, cache, rss, cmd, view, dd, an, az,
                sentiment_scores, nextScoreId, mentions, rate, clean>>

\* get_sector_rotation_signals(hours): the two times are computed
RotationStart ==
    /\ call.pc = "start"
    /\ call' = [call EXCEPT !.pc = "sectors"]
    /\ RotationUnchanged

\* a key of sector_keywords without a Sector row: continue
RotationNoSector ==
    /\ call.pc = "sectors"
    /\ call.i <= Len(SectorKeys)
    /\ SectorKeys[call.i] \notin call.sector_rows
    /\ call' = [call EXCEPT !.i = @ + 1]
    /\ RotationUnchanged

\* one pass of the loop for a key with a Sector row: the two averages, the
\* change, and the signal when the change is significant
RotationSector ==
    /\ call.pc = "sectors"
    /\ call.i <= Len(SectorKeys)
    /\ SectorKeys[call.i] \in call.sector_rows
    /\ LET sector_name == SectorKeys[call.i]
           first_rows == FirstHalf(sentiment_scores, sector_name, hours)
           second_rows == SecondHalf(sentiment_scores, sector_name, hours)
           first_half == AvgScore(first_rows)
           second_half == AvgScore(second_rows)
           change == Change(first_half[1], second_half[1])
       IN  call' = [call EXCEPT
                      !.i = @ + 1,
                      !.halves = Append(@, [sector |-> sector_name,
                                            first |-> first_rows,
                                            second |-> second_rows]),
                      !.rotation_signals =
                          IF /\ first_half # Absent
                             /\ second_half # Absent
                             /\ Significant(change)
                          THEN Append(@,
                                 [sector |-> sector_name,
                                  signal |-> IF change.num > 0 THEN "bullish"
                                             ELSE "bearish",
                                  sentiment_change |-> change,
                                  previous_sentiment |-> first_half[1],
                                  current_sentiment |-> second_half[1]])
                          ELSE @]
    /\ RotationUnchanged

\* the sort and the return
RotationSort ==
    /\ call.pc = "sectors"
    /\ call.i > Len(SectorKeys)
    /\ call' = [call EXCEPT
                  !.pc = "done",
                  !.result = SortByAbsChange(call.rotation_signals, <<>>)]
    /\ RotationUnchanged

NextRotation == RotationStart \/ RotationNoSector \/ RotationSector \/ RotationSort

SpecRotation == InitRotation /\ [][NextRotation]_vars

SectorRowsOf(sector) == {r \in sentiment_scores : r.sector = sector}

\* the rows of a sector older than half the window but not older than the
\* window, and those not older than half the window
OlderHalf(sector) ==
    {r \in SectorRowsOf(sector) : 2 * r.age > hours /\ r.age <= hours}

YoungerHalf(sector) == {r \in SectorRowsOf(sector) : 2 * r.age <= hours}

\* (sum of second) / (size of second) - (sum of first) / (size of first),
\* times both sizes, in hundredths
DeltaNum(sector) ==
    SumScores(YoungerHalf(sector)) * Cardinality(OlderHalf(sector))
        - SumScores(OlderHalf(sector)) * Cardinality(YoungerHalf(sector))

DeltaDen(sector) == Cardinality(OlderHalf(sector)) * Cardinality(YoungerHalf(sector))

Reported == {call.result[k].sector : k \in 1..Len(call.result)}

\* the scenario: "it" at 0.1 then 0.4, "banking" at 0.5 then 0.45
RotationScenario ==
    sentiment_scores =
        {[sector |-> "it", sentiment_score |-> 10, age |-> 18],
         [sector |-> "it", sentiment_score |-> 40, age |-> 6],
         [sector |-> "banking", sentiment_score |-> 50, age |-> 18],
         [sector |-> "banking", sentiment_score |-> 45, age |-> 6]}

\* C24: a sector is reported only when it has scores in both halves of the
\* window and the absolute difference of the two averages is strictly more
\* than 0.2, so not when it is exactly 0.2; for "it" at 0.1 then 0.4 and
\* "banking" at 0.5 then 0.45 only "it" is reported
C24_SignalOnlyAboveThreshold ==
    call.pc = "done" =>
        /\ \A sector \in Reported :
              /\ OlderHalf(sector) # {}
              /\ YoungerHalf(sector) # {}
              /\ Abs(DeltaNum(sector)) > rotation_threshold * DeltaDen(sector)
        /\ \A sector \in Range(SectorKeys) :
              Abs(DeltaNum(sector)) = rotation_threshold * DeltaDen(sector) =>
                  sector \notin Reported
        /\ RotationScenario => Reported = {"it"}

\* the scenario has been answered
C24_Witness ==
    /\ call.pc = "done"
    /\ RotationScenario
    /\ Reported = {"it"}

\* a sector whose change is exactly 0.2 next to a reported sector
C24_BoundaryWitness ==
    /\ call.pc = "done"
    /\ Reported # {}
    /\ \E sector \in Range(SectorKeys) :
          /\ DeltaDen(sector) > 0
          /\ Abs(DeltaNum(sector)) = rotation_threshold * DeltaDen(sector)

\* C25: the two halves are equally long and partition the window: a score
\* of a sector not older than the window is counted in exactly one of them
\* and an older one in none; a signal is bullish exactly when its change is
\* positive and bearish exactly when it is negative; no sector is reported
\* twice; the signals come by non-increasing absolute change
C25_HalvesPartitionSignalsSorted ==
    call.pc = "done" =>
        /\ \A k \in 1..Len(call.halves) :
              LET h == call.halves[k]
              IN  /\ h.first \cap h.second = {}
                  /\ h.first \cup h.second =
                        {r \in SectorRowsOf(h.sector) : r.age <= hours}
                  /\ h.first = OlderHalf(h.sector)
                  /\ h.second = YoungerHalf(h.sector)
        /\ \A k \in 1..Len(call.result) :
              LET x == call.result[k]
              IN  /\ (x.signal = "bullish") = (DeltaNum(x.sector) > 0)
                  /\ (x.signal = "bearish") = (DeltaNum(x.sector) < 0)
        /\ \A k, l \in 1..Len(call.result) :
              k < l =>
                  /\ call.result[k].sector # call.result[l].sector
                  /\ AbsChangeGeq(call.result[k], call.result[l])

\* two signals that the sort has put in the other order, with a score on
\* each edge of the window's first half
C25_Witness ==
    /\ call.pc = "done"
    /\ Len(call.result) = 2
    /\ call.result[1].sector = "it"
    /\ call.result[1].signal # call.result[2].signal
    /\ \E r \in sentiment_scores : r.sector = "it" /\ r.age = hours
    /\ \E r \in sentiment_scores : r.sector = "it" /\ 2 * r.age = hours

---------------------------------------------------------------------------
(* A retention cleanup next to an analysis of the same Article *)

\* the primary keys handed out so far that have no News row any more: the
\* rows a cleanup has deleted
DeletedIds == {id \in 1..(nextId - 1) : ~NewsExists(news, id)}

\* C26: once a retention cleanup has deleted an Article, no News row and no
\* SentimentScore row of it exists in any later state, also when an
\* analyze_article_sentiment run had loaded the Article before the cleanup
\* and saves it afterwards
C26_DeletedArticleStaysDeleted ==
    [][\A id \in DeletedIds :
          /\ ~NewsExists(news', id)
          /\ \A x \in sentiment_scores' : x.news # id]_vars

---------------------------------------------------------------------------
(* Two scrape_rss_source tasks run side by side, with a cache that keeps   *)
(* every key: no expiry and no cleanup_cache                               *)

NextScrape == \E w \in RssTasks : RssStep(w)

SpecScrape == InitCache /\ [][NextScrape]_vars

\* C27: while the seen marks are live, no two Articles persisted by
\* scrape_rss_source have the same fingerprint, also when two tasks for
\* different sources carry the same content under different URLs
C27_OneArticlePerFingerprint ==
    \A r1, r2 \in news :
        r1.content_hash = r2.content_hash => r1.id = r2.id

---------------------------------------------------------------------------
(* The scheduled scrapes and the submission of their new Articles to       *)
(* analyze_article_sentiment                                               *)

\* analyze_recent_articles: `.order_by('-date')[:50]`
recent_limit == 50

MaxRuns == 2

\* how many new Articles one run of a feed scrape saves, and one run of
\* scrape_rss_source
SavedCounts == {1, recent_limit + 1}

RssSavedCounts == {1, 2}

\* the rows a run saves: `date` defaults to the time of the INSERT, so a
\* later row has the later date; "fresh" is a date within the last hour,
\* "hour" one older than that, "week" one older than 7 days
NewRows(first, n) ==
    {[id |-> id, is_analyzed |-> FALSE, age |-> "fresh"] :
        id \in first..(first + n - 1)}

RecentTask == [task |-> "analyze_recent_articles", id |-> 0]

ArticleTask(id) == [task |-> "analyze_article_sentiment", id |-> id]

\* analyze_article_sentiment.delay for the ids first..last, in that order
TasksUp(first, last) ==
    [k \in 1..(last - first + 1) |-> ArticleTask(first + k - 1)]

\* the same for a set of rows, the latest date first
TasksDown(rows) ==
    LET ids == {r.id : r \in rows}
    IN  [k \in 1..Cardinality(ids) |->
            ArticleTask(CHOOSE i \in ids :
                            Cardinality({j \in ids : j > i}) = k - 1)]

\* News.objects.filter(is_analyzed=False, date__gte=cutoff_time)
\*     .order_by('-date')[:50] with hours=1
RecentBatch(rows) ==
    LET unanalyzed == {r \in rows : ~r.is_analyzed /\ r.age = "fresh"}
    IN  {r \in unanalyzed :
            Cardinality({x \in unanalyzed : x.id > r.id}) < recent_limit}

InitSubmit ==
    /\ news = {}
    /\ nextId = 1
    /\ cache = {}
    /\ rss = [w \in RssTasks |->
                RssQueued(<<NormalizedArticle("u1", <<"A">>, <<"s">>)>>)]
    /\ cmd = CmdIdle
    /\ view = ViewIdle
    /\ dd = DdIdle
    /\ an = [pc |-> "idle"]
    /\ az = <<>>
    /\ sentiment_scores = {}
    /\ nextScoreId = 1
    /\ mentions = {}
    /\ call = [runs |-> 0, queue |-> <<>>, submitted |-> {}]
    /\ rate = [pc |-> "idle"]
    /\ clean = [pc |-> "idle"]

SubmitUnchanged ==
    UNCHANGED <<cache, rss, cmd, view, dd, an, az, sentiment_scores,
                nextScoreId, mentions, rate, clean>>

\* The scrapes are started by the schedule, the next one after the worker
\* has emptied the queue.
\* scrape_all_news_sources with one feed, or scrape_single_feed: the new
\* articles are saved, and analyze_recent_articles.delay(hours=1) when
\* save_stats['saved'] > 0
ScrapeFeedRun ==
    /\ call.runs < MaxRuns
    /\ call.queue = <<>>
    /\ \E n \in SavedCounts :
          /\ news' = news \cup NewRows(nextId, n)
          /\ nextId' = nextId + n
          /\ call' = [call EXCEPT
                        !.runs = @ + 1,
                        !.queue = IF n > 0 THEN Append(@, RecentTask) ELSE @]
    /\ SubmitUnchanged

\* scrape_rss_source: analyze_article_sentiment.delay(news.id) after each
\* created row
ScrapeRssRun ==
    /\ call.runs < MaxRuns
    /\ call.queue = <<>>
    /\ \E n \in RssSavedCounts :
          /\ news' = news \cup NewRows(nextId, n)
          /\ nextId' = nextId + n
          /\ call' = [call EXCEPT
                        !.runs = @ + 1,
                        !.queue = @ \o TasksUp(nextId, nextId + n - 1),
                        !.submitted = @ \cup nextId..(nextId + n - 1)]
    /\ SubmitUnchanged

\* the worker takes analyze_recent_articles from the queue
RunAnalyzeRecent ==
    /\ call.queue # <<>>
    /\ Head(call.queue).task = "analyze_recent_articles"
    /\ LET unanalyzed_articles == RecentBatch(news)
       IN  call' = [call EXCEPT
                      !.queue = Tail(@) \o TasksDown(unanalyzed_articles),
                      !.submitted = @ \cup {r.id : r \in unanalyzed_articles}]
    /\ UNCHANGED <<news, nextId>>
    /\ SubmitUnchanged

\* the worker takes analyze_article_sentiment(news_id) from the queue; the
\* run marks the Article analyzed, or finds no row
RunAnalyzeArticle ==
    /\ call.queue # <<>>
    /\ Head(call.queue).task = "analyze_article_sentiment"
    /\ news' = {IF r.id = Head(call.queue).id
                THEN [r EXCEPT !.is_analyzed = TRUE] ELSE r : r \in news}
    /\ call' = [call EXCEPT !.queue = Tail(@)]
    /\ UNCHANGED nextId
    /\ SubmitUnchanged

\* The worker is prompt: time passes, and the cleanup runs, when the queue
\* is empty.
\* an hour passes: no stored date is within the last hour any more
PassHour ==
    /\ call.queue = <<>>
    /\ \E r \in news : r.age = "fresh"
    /\ news' = {IF r.age = "fresh" THEN [r EXCEPT !.age = "hour"] ELSE r :
                    r \in news}
    /\ UNCHANGED <<nextId, call>>
    /\ SubmitUnchanged

\* 7 days pass
PassWeek ==
    /\ call.queue = <<>>
    /\ \E r \in news : r.age # "week"
    /\ news' = {[r EXCEPT !.age = "week"] : r \in news}
    /\ UNCHANGED <<nextId, call>>
    /\ SubmitUnchanged

\* cleanup_old_unanalyzed_articles(days=7)
CleanupUnanalyzed ==
    /\ call.queue = <<>>
    /\ \E r \in news : ~r.is_analyzed /\ r.age = "week"
    /\ news' = {r \in news : ~(~r.is_analyzed /\ r.age = "week")}
    /\ UNCHANGED <<nextId, call>>
    /\ SubmitUnchanged

NextSubmit ==
    \/ ScrapeFeedRun
    \/ ScrapeRssRun
    \/ RunAnalyzeRecent
    \/ RunAnalyzeArticle
    \/ PassHour
    \/ PassWeek
    \/ CleanupUnanalyzed

SpecSubmit == InitSubmit /\ [][NextSubmit]_vars

\* every queued task is eventually executed
FairSubmit ==
    /\ SpecSubmit
    /\ WF_vars(RunAnalyzeRecent)
    /\ WF_vars(RunAnalyzeArticle)

\* C28: every Article a scheduled scrape has persisted is eventually
\* submitted to analyze_article_sentiment, however many Articles one run
\* saves: again and again all the Articles persisted so far have been
\* submitted (the persisted and the submitted ids only grow)
C28_EveryNewArticleSubmitted ==
    []<>(\A id \in 1..(nextId - 1) : id \in call.submitted)

---------------------------------------------------------------------------
(* The rows an Article is left with by its analyses *)

\* no analyze_article_sentiment run is between its first and its last step
NoAnalysisInProgress ==
    \A t \in AzTasks : az[t].pc \in {"queued", "done", "failed"}

\* C29: whenever an Article is marked analyzed and no analysis of it is in
\* progress, all its SentimentScore rows carry the composite score of one
\* and the same analysis (label and confidence are written by the same
\* statement, from the same result) and the Article's impact_rating is
\* that composite score, also after a re-analysis and after two analyses
\* that ran concurrently
C29_ScoresOfOneAnalysis ==
    \A r \in news :
        (r.is_analyzed /\ NoAnalysisInProgress) =>
            \E c \in Composites :
                /\ r.impact_rating = c
                /\ \A x \in sentiment_scores :
                      x.news = r.id => x.sentiment_score = c

---------------------------------------------------------------------------
(* BaseScraper.scrape_with_retry *)

MaxScrapeRetries == 3

\* what one call of self.scrape() does: it returns a list of articles or
\* raises an Exception
ScrapeReturned(articles) == [raised |-> FALSE, articles |-> articles]

ScrapeRaised == [raised |-> TRUE, articles |-> <<>>]

ScrapeOutcomes == {ScrapeRaised, ScrapeReturned(<<>>), ScrapeReturned(<<"a1">>)}

\* the same wait before every retry, for comparison
ConstantWait(attempt) == 1

\* wait_time = 2 ** attempt
WaitTime(attempt) == 2 ^ attempt

\* scrape_with_retry(max_retries) is called; the outcomes of the successive
\* calls of scrape() are drawn beforehand
InitRetry ==
    /\ news = {}
    /\ nextId = 1
    /\ cache = {}
    /\ rss = [w \in RssTasks |->
                RssQueued(<<NormalizedArticle("u1", <<"A">>, <<"s">>)>>)]
    /\ cmd = CmdIdle
    /\ view = ViewIdle
    /\ dd = DdIdle
    /\ an = [pc |-> "idle"]
    /\ az = <<>>
    /\ sentiment_scores = {}
    /\ nextScoreId = 1
    /\ mentions = {}
    /\ call \in {[pc |-> "loop", max_retries |-> n, outcomes |-> o,
                  attempt |-> 0, calls |-> 0, waits |-> <<>>, result |-> <<>>] :
                    n \in 0..MaxScrapeRetries,
                    o \in [1..MaxScrapeRetries -> ScrapeOutcomes]}
    /\ rate = [pc |-> "idle"]
    /\ clean = [pc |-> "idle"]

RetryUnchanged ==
    UNCHANGED <<news, nextId, cache, rss, cmd, view, dd, an, az,
                sentiment_scores, nextScoreId, mentions, rate, clean>>

\* an attempt whose scrape() returns: return articles
ScrapeSucceeds ==
    /\ call.pc = "loop"
    /\ call.attempt < call.max_retries
    /\ ~call.outcomes[call.attempt + 1].raised
    /\ call' = [call EXCEPT
                  !.pc = "returned",
                  !.calls = @ + 1,
                  !.result = call.outcomes[call.attempt + 1].articles]
    /\ RetryUnchanged

\* an attempt whose scrape() raises, not the last one: the wait is computed
ScrapeFails ==
    /\ call.pc = "loop"
    /\ call.attempt < call.max_retries
    /\ call.outcomes[call.attempt + 1].raised
    /\ call.attempt < call.max_retries - 1
    /\ call' = [call EXCEPT
                  !.pc = "sleep",
                  !.calls = @ + 1,
                  !.waits = Append(@, WaitTime(call.attempt))]
    /\ RetryUnchanged

\* await asyncio.sleep(wait_time), then the next attempt
RetrySleep ==
    /\ call.pc = "sleep"
    /\ call' = [call EXCEPT !.pc = "loop", !.attempt = @ + 1]
    /\ RetryUnchanged

\* the last attempt raises: return []
ScrapeFailsLast ==
    /\ call.pc = "loop"
    /\ call.attempt < call.max_retries
    /\ call.outcomes[call.attempt + 1].raised
    /\ call.attempt >= call.max_retries - 1
    /\ call' = [call EXCEPT !.pc = "returned", !.calls = @ + 1, !.result = <<>>]
    /\ RetryUnchanged

\* range(max_retries) is empty: the return [] after the loop
RetryLoopEnds ==
    /\ call.pc = "loop"
    /\ call.attempt >= call.max_retries
    /\ call' = [call EXCEPT !.pc = "returned", !.result = <<>>]
    /\ RetryUnchanged

NextRetry ==
    \/ ScrapeSucceeds
    \/ ScrapeFails
    \/ RetrySleep
    \/ ScrapeFailsLast
    \/ RetryLoopEnds

SpecRetry == InitRetry /\ [][NextRetry]_vars

\* the coroutine is run to its end: no step of it waits for anything but
\* its own sleep
FairRetry == SpecRetry /\ WF_vars(NextRetry)

\* the calls of scrape() that return, among the first max_retries
Successes ==
    {k \in 1..call.max_retries : ~call.outcomes[k].raised}

FirstSuccess == CHOOSE k \in Successes : \A j \in Successes : k <= j

\* scrape() has been called n times, each but the last followed by its wait
AfterCalls(n) ==
    /\ call.calls = n
    /\ call.waits = [k \in 1..(n - 1) |-> 2 ^ (k - 1)]

RetryReturnsAsClaimed ==
    call.pc = "returned" =>
        /\ call.calls <= call.max_retries
        /\ IF Successes # {}
           THEN /\ call.result = call.outcomes[FirstSuccess].articles
                /\ AfterCalls(FirstSuccess)
           ELSE /\ call.result = <<>>
                /\ AfterCalls(call.max_retries)

\* C30: scrape_with_retry terminates, having called scrape at most
\* max_retries times; it returns the articles of the first call that
\* succeeds and calls no more; between a failed attempt and the next it
\* waits 1, 2, 4, ... seconds; it returns the empty list when every attempt
\* fails and when max_retries is 0
C30_RetryTerminates ==
    /\ []RetryReturnsAsClaimed
    /\ <>(call.pc = "returned")

\* the third attempt succeeds after two failures and two waits
C30_Witness ==
    /\ call.pc = "returned"
    /\ call.max_retries = MaxScrapeRetries
    /\ call.calls = 3
    /\ Len(call.waits) = 2
    /\ call.result # <<>>


====
